---- MODULE Spec2Model ----
(***************************************************************************)
(* picture_book_generator: ContentAdapterService and its LLM-response      *)
(* extraction (services/content_adapter.py), KnowledgeSearchService        *)
(* (services/knowledge_search.py), PictureBookGenerator (core/generator.py)*)
(* with the generate command and the web app, TelegramService              *)
(* (services/telegram.py) and NotebookLMService (services/notebooklm.py).  *)
(* Each has a state machine and a specification of its own over one Init.  *)
(*                                                                         *)
(* Text is a sequence of glyphs (a Python str is <<g1, ..., gn>>, the      *)
(* empty str is <<>>); glyphs are written in ASCII, the literal of the     *)
(* source standing in the comment beside each one.  An LLM response is a   *)
(* sequence of lexical tokens: the JSON punctuation, JSON literals and     *)
(* runs of prose.  The glyphs of prose and of JSON strings hold no brace.  *)
(***************************************************************************)
EXTENDS Integers, Sequences, FiniteSets, TLC

\* one call of a ContentAdapterService operation
VARIABLES pc, op, args, response, ret, llmCalls

\* one call of a KnowledgeSearchService operation
VARIABLES spc, sop, settings, searchTopic, tasks, branch, http, finished, searchRet

\* one run of PictureBookGenerator.generate, awaited on its own or from the
\* generate command (cli.py) or the web app (app.py)
VARIABLES entryPoint, gpc, config, binding, options, started, completed, knowledgeFound,
          adapted_content, structure, chapters_data, book, genRet, bookFile, slidesCalls,
          slidesRet, slides_path, exitState, client

\* one call of a TelegramService operation
VARIABLES tpc, tgOp, image_paths, book_title, unreadable, batchStart, posted, openFiles, tgRet

\* one call of a NotebookLMService operation
VARIABLES npc, nlmOp, check_interval, max_wait_time, elapsed, slept, polls, lastStatus,
          reportedWait, downloads, existing_names, source_title, nlmRet

adapterVars == <<pc, op, args, response, ret, llmCalls>>

genVars == <<entryPoint, gpc, config, binding, options, started, completed, knowledgeFound,
             adapted_content, structure, chapters_data, book, genRet, bookFile, slidesCalls,
             slidesRet, slides_path, exitState, client>>

searchVars == <<spc, sop, settings, searchTopic, tasks, branch, http, finished, searchRet>>

telegramVars == <<tpc, tgOp, image_paths, book_title, unreadable, batchStart, posted,
                  openFiles, tgRet>>

notebookVars == <<npc, nlmOp, check_interval, max_wait_time, elapsed, slept, polls,
                  lastStatus, reportedWait, downloads, existing_names, source_title,
                  nlmRet>>

\* what a call of a ContentAdapterService operation leaves alone
notAdapterVars == <<searchVars, genVars, telegramVars, notebookVars>>

\* what a call of a KnowledgeSearchService operation leaves alone
notSearchVars == <<adapterVars, genVars, telegramVars, notebookVars>>

\* what a run of generate leaves alone
notGenVars == <<adapterVars, searchVars, telegramVars, notebookVars>>

\* what a call of a TelegramService operation leaves alone
notTelegramVars == <<adapterVars, searchVars, genVars, notebookVars>>

\* what a call of a NotebookLMService operation leaves alone
notNotebookVars == <<adapterVars, searchVars, genVars, telegramVars>>

vars == <<adapterVars, searchVars, genVars, telegramVars, notebookVars>>

(***************************************************************************)
(* Bounds of the model.                                                    *)
(***************************************************************************)
\* the largest chapter_count / len(chapter_titles) a caller passes
MaxChapters == 3

\* the longest `chapters` sequence an LLM payload carries (N+1 is reached)
MaxParsed == MaxChapters + 1

\* the largest chapter_count of a BookConfig in a run of generate
MaxBookChapters == 4

(***************************************************************************)
(* Python / JSON values.  Every value has the same four fields so that any *)
(* two values can be compared: t is the type tag, s the text of a str or   *)
(* the digits of a number, items the elements of a list or the values of a *)
(* dict, keys the keys of a dict (in insertion order).                     *)
(***************************************************************************)
None == [t |-> "null", s |-> <<>>, keys |-> <<>>, items |-> <<>>]

PyStr(s) == [t |-> "str", s |-> s, keys |-> <<>>, items |-> <<>>]

PyNum(s) == [t |-> "num", s |-> s, keys |-> <<>>, items |-> <<>>]

PyList(items) == [t |-> "list", s |-> <<>>, keys |-> <<>>, items |-> items]

PyDict(keys, items) == [t |-> "dict", s |-> <<>>, keys |-> keys, items |-> items]

\* str(n) for n >= 0, as f"{n}" formats it
RECURSIVE IntToStr(_)
IntToStr(n) ==
    LET d == <<"0", "1", "2", "3", "4", "5", "6", "7", "8", "9">>
    IN  IF n < 10 THEN <<d[n + 1]>> ELSE IntToStr(n \div 10) \o <<d[(n % 10) + 1]>>

\* needle in haystack, for two str
Contains(haystack, needle) ==
    \E i \in 0..(Len(haystack) - Len(needle)) :
        SubSeq(haystack, i + 1, i + Len(needle)) = needle

\* d.get(key, default) and the position of key in d
KeyIndex(d, key) ==
    IF \E i \in 1..Len(d.keys) : d.keys[i] = key
    THEN CHOOSE i \in 1..Len(d.keys) : d.keys[i] = key
    ELSE 0

HasKey(d, key) == KeyIndex(d, key) # 0

DictGet(d, key, default) ==
    IF HasKey(d, key) THEN d.items[KeyIndex(d, key)] ELSE default

\* d[key] = value of a dict under construction: a repeated key keeps its
\* place and takes the later value
DictSet(d, key, value) ==
    IF HasKey(d, key)
    THEN PyDict(d.keys, [d.items EXCEPT ![KeyIndex(d, key)] = value])
    ELSE PyDict(Append(d.keys, key), Append(d.items, value))

\* len(v) is defined for list, str and dict; TypeError otherwise
HasLen(v) == v.t \in {"list", "str", "dict"}

PyLen(v) ==
    CASE v.t = "list" -> Len(v.items)
      [] v.t = "str"  -> Len(v.s)
      [] v.t = "dict" -> Len(v.keys)
      [] OTHER        -> 0

\* the outcome of a call: a returned value or a raised exception
Return(value) == [kind |-> "return", exc |-> "", value |-> value]

Raise(exc) == [kind |-> "raise", exc |-> exc, value |-> None]

NoRet == [kind |-> "none", exc |-> "", value |-> None]

(***************************************************************************)
(* Tokens of a response text.                                              *)
(***************************************************************************)
Tok(k) == [k |-> k, s |-> <<>>]

StrTok(s) == [k |-> "str", s |-> s]

NumTok(s) == [k |-> "num", s |-> s]

\* a run of prose with no brace in it
Prose(s) == [k |-> "text", s |-> s]

\* json.dumps(v)
RECURSIVE Dumps(_)
RECURSIVE DumpItems(_, _)
RECURSIVE DumpMembers(_, _)
DumpItems(v, i) ==
    IF i > Len(v.items) THEN <<>>
    ELSE (IF i > 1 THEN <<Tok(",")>> ELSE <<>>) \o Dumps(v.items[i]) \o DumpItems(v, i + 1)

DumpMembers(v, i) ==
    IF i > Len(v.keys) THEN <<>>
    ELSE (IF i > 1 THEN <<Tok(",")>> ELSE <<>>)
         \o <<StrTok(v.keys[i]), Tok(":")>> \o Dumps(v.items[i]) \o DumpMembers(v, i + 1)

Dumps(v) ==
    CASE v.t = "null" -> <<Tok("null")>>
      [] v.t = "str"  -> <<StrTok(v.s)>>
      [] v.t = "num"  -> <<NumTok(v.s)>>
      [] v.t = "list" -> <<Tok("[")>> \o DumpItems(v, 1) \o <<Tok("]")>>
      [] v.t = "dict" -> <<Tok("{")>> \o DumpMembers(v, 1) \o <<Tok("}")>>

\* json.loads(text): a recursive-descent parse of one JSON value that must
\* consume the whole text; ok = FALSE is json.JSONDecodeError
ParseFail == [ok |-> FALSE, v |-> None, next |-> 0]

ParseOk(v, next) == [ok |-> TRUE, v |-> v, next |-> next]

RECURSIVE ParseValue(_, _)
RECURSIVE ParseItems(_, _, _)
RECURSIVE ParseMembers(_, _, _)
ParseItems(toks, i, acc) ==
    LET r == ParseValue(toks, i)
    IN  IF ~r.ok \/ r.next > Len(toks) THEN ParseFail
        ELSE IF toks[r.next].k = "," THEN ParseItems(toks, r.next + 1, Append(acc, r.v))
        ELSE IF toks[r.next].k = "]" THEN ParseOk(PyList(Append(acc, r.v)), r.next + 1)
        ELSE ParseFail

ParseMembers(toks, i, acc) ==
    IF i + 1 > Len(toks) \/ toks[i].k # "str" \/ toks[i + 1].k # ":" THEN ParseFail
    ELSE LET r == ParseValue(toks, i + 2)
         IN  IF ~r.ok \/ r.next > Len(toks) THEN ParseFail
             ELSE IF toks[r.next].k = ","
                  THEN ParseMembers(toks, r.next + 1, DictSet(acc, toks[i].s, r.v))
             ELSE IF toks[r.next].k = "}"
                  THEN ParseOk(DictSet(acc, toks[i].s, r.v), r.next + 1)
             ELSE ParseFail

ParseValue(toks, i) ==
    IF i > Len(toks) THEN ParseFail
    ELSE CASE toks[i].k = "null" -> ParseOk(None, i + 1)
           [] toks[i].k = "str"  -> ParseOk(PyStr(toks[i].s), i + 1)
           [] toks[i].k = "num"  -> ParseOk(PyNum(toks[i].s), i + 1)
           [] toks[i].k = "["    ->
                IF i + 1 <= Len(toks) /\ toks[i + 1].k = "]"
                THEN ParseOk(PyList(<<>>), i + 2)
                ELSE ParseItems(toks, i + 1, <<>>)
           [] toks[i].k = "{"    ->
                IF i + 1 <= Len(toks) /\ toks[i + 1].k = "}"
                THEN ParseOk(PyDict(<<>>, <<>>), i + 2)
                ELSE ParseMembers(toks, i + 1, PyDict(<<>>, <<>>))
           [] OTHER -> ParseFail

JsonLoads(toks) ==
    LET r == ParseValue(toks, 1)
    IN  IF r.ok /\ r.next = Len(toks) + 1 THEN ParseOk(r.v, r.next) ELSE ParseFail

\* text.find(k) and text.rfind(k): 0-based position, -1 when absent
Find(text, k) ==
    IF \E i \in 1..Len(text) : text[i].k = k
    THEN (CHOOSE i \in 1..Len(text) :
            text[i].k = k /\ \A j \in 1..(i - 1) : text[j].k # k) - 1
    ELSE -1

RFind(text, k) ==
    IF \E i \in 1..Len(text) : text[i].k = k
    THEN (CHOOSE i \in 1..Len(text) :
            text[i].k = k /\ \A j \in (i + 1)..Len(text) : text[j].k # k) - 1
    ELSE -1

\* text[start:stop] for 0 <= start, 0 <= stop
Slice(text, start, stop) ==
    SubSeq(text, start + 1, IF stop < Len(text) THEN stop ELSE Len(text))

\* json.JSONDecoder().raw_decode from the first opening brace: the first
\* complete value, whatever follows it
ExtractJson_FirstObject(text) ==
    LET start == Find(text, "{")
        r     == IF start # -1 THEN ParseValue(text, start + 1) ELSE ParseFail
    IN  IF r.ok THEN ParseOk(r.v, r.next) ELSE ParseFail

\* the try-block shared by the three extractions: the brace scan and
\* json.loads of response[start : end + 1]; ok = FALSE when a brace is
\* absent or json.JSONDecodeError was raised (and caught)
ExtractJson(text) ==
    LET start == Find(text, "{")
        end   == RFind(text, "}")
    IN  IF start # -1 /\ end # -1 THEN JsonLoads(Slice(text, start, end + 1))
        ELSE ParseFail

(***************************************************************************)
(* generate_book_structure                                                 *)
(***************************************************************************)
Key(name) == <<name>>

\* f"explore {topic}'s wonderful world", the zh literal of lines 290 and 299
TitleTemplate(topic) == <<"tansuo">> \o topic \o <<"de-qimiao-shijie">>

\* the zh literal of line 300: "a fun picture book about {topic} prepared
\* for children aged {a}-{b}."
SummaryTemplate(topic, age_range) ==
    <<"yiben-wei">> \o IntToStr(age_range[1]) \o <<"-">> \o IntToStr(age_range[2])
    \o <<"sui-ertong-zhunbei-de-guanyu">> \o topic \o <<"de-quwei-huiben.">>

\* f"di{i+1}zhang" ("chapter i+1"), i the 0-based index
ChapterPlaceholder(i) == <<"di">> \o IntToStr(i + 1) \o <<"zhang">>

\* [f"di{i+1}zhang" for i in range(lo, hi)]
PlaceholderRange(lo, hi) ==
    [j \in 1..(IF hi > lo THEN hi - lo ELSE 0) |-> PyStr(ChapterPlaceholder(lo + j - 1))]

\* if len(chapters) < chapter_count: chapters.extend(...), for a list
ExtendChapters_FromOne(chapters, chapter_count) ==
    IF Len(chapters.items) < chapter_count
    THEN PyList(chapters.items \o PlaceholderRange(0, chapter_count - Len(chapters.items)))
    ELSE chapters

ExtendChapters(chapters, chapter_count) ==
    IF Len(chapters.items) < chapter_count
    THEN PyList(chapters.items \o PlaceholderRange(Len(chapters.items), chapter_count))
    ELSE chapters

\* v[:n] for a list or a str and n >= 0
PySlice(v, n) ==
    IF v.t = "list" THEN PyList(Slice(v.items, 0, n)) ELSE PyStr(Slice(v.s, 0, n))

\* the record under the prompt's name for its chapter list
StructureRecord_ChapterTitles(title, summary, chapters) ==
    PyDict(<<Key("title"), Key("summary"), Key("chapter_titles")>>, <<title, summary, chapters>>)

StructureRecord(title, summary, chapters) ==
    PyDict(<<Key("title"), Key("summary"), Key("chapters")>>, <<title, summary, chapters>>)

\* the title and the summary of the record built from a parsed result
ParsedTitle(result, topic) == DictGet(result, Key("title"), PyStr(TitleTemplate(topic)))

ParsedSummary_AsTitle(result, topic) ==
    DictGet(result, Key("summary"), PyStr(TitleTemplate(topic)))

ParsedSummary(result, topic) == DictGet(result, Key("summary"), PyStr(<<>>))

\* lines 286-293, result the parsed dict.  len(None) and len(5) raise
\* TypeError, "ab".extend and {}.extend raise AttributeError, and a dict
\* cannot be sliced (TypeError; KeyError from Python 3.12 on)
StructureFromResult(result, topic, chapter_count) ==
    LET chapters == DictGet(result, Key("chapters"), PyList(<<>>))
    IN  IF ~HasLen(chapters) THEN Raise("TypeError")
        ELSE IF PyLen(chapters) < chapter_count /\ chapters.t # "list"
             THEN Raise("AttributeError")
        ELSE IF chapters.t = "dict" THEN Raise("TypeError")
        ELSE Return(StructureRecord(
                 ParsedTitle(result, topic),
                 ParsedSummary(result, topic),
                 PySlice(IF chapters.t = "list"
                         THEN ExtendChapters(chapters, chapter_count)
                         ELSE chapters, chapter_count)))

\* lines 298-302
FallbackStructure(topic, age_range, chapter_count) ==
    StructureRecord(PyStr(TitleTemplate(topic)),
                    PyStr(SummaryTemplate(topic, age_range)),
                    PyList(PlaceholderRange(0, chapter_count)))

\* lines 280-302 applied to the LLM's response
BookStructure(text, topic, age_range, chapter_count) ==
    LET parsed == ExtractJson(text)
    IN  IF parsed.ok THEN StructureFromResult(parsed.v, topic, chapter_count)
        ELSE Return(FallbackStructure(topic, age_range, chapter_count))

(***************************************************************************)
(* generate_all_chapters                                                   *)
(***************************************************************************)
ChapterRecord(content, knowledge_points, illustration_prompt) ==
    PyDict(<<Key("content"), Key("knowledge_points"), Key("illustration_prompt")>>,
           <<content, knowledge_points, illustration_prompt>>)

\* line 375: "this is wonderful content about {topic}."
PaddingBody(topic) == <<"zhe-shi-guanyu">> \o topic \o <<"de-jingcai-neirong.">>

\* line 386: "this is the content of chapter {i+1} about {topic}."
FallbackBody_ZeroBased(topic, i) ==
    <<"zhe-shi-guanyu">> \o topic \o <<"de-di">> \o IntToStr(i) \o <<"zhang-neirong.">>

FallbackBody(topic, i) ==
    <<"zhe-shi-guanyu">> \o topic \o <<"de-di">> \o IntToStr(i + 1) \o <<"zhang-neirong.">>

\* lines 374-378
PaddedChapter(topic) == ChapterRecord(PyStr(PaddingBody(topic)), PyList(<<>>), None)

\* lines 385-389
FallbackChapter(topic, i) == ChapterRecord(PyStr(FallbackBody(topic, i)), PyList(<<>>), None)

\* line 371
IllustrationOf_Always(ch, include_illustration) ==
    DictGet(ch, Key("illustration_prompt"), None)

IllustrationOf(ch, include_illustration) ==
    IF include_illustration THEN DictGet(ch, Key("illustration_prompt"), None) ELSE None

\* lines 368-372, ch a dict
ChapterFromEntry(ch, include_illustration) ==
    ChapterRecord(DictGet(ch, Key("content"), PyStr(<<>>)),
                  DictGet(ch, Key("knowledge_points"), PyList(<<>>)),
                  IllustrationOf(ch, include_illustration))

\* lines 366-378 for the 0-based index i.  len(None) and len(5) raise
\* TypeError; a dict indexed by an int raises KeyError (JSON keys are str);
\* a str indexed by i is a one-glyph str; .get exists on a dict alone
\* (AttributeError)
ChapterAt(chapters, i, topic, include_illustration) ==
    IF ~HasLen(chapters) THEN Raise("TypeError")
    ELSE IF i < PyLen(chapters)
         THEN IF chapters.t = "dict" THEN Raise("KeyError")
              ELSE LET ch == IF chapters.t = "list" THEN chapters.items[i + 1]
                             ELSE PyStr(<<chapters.s[i + 1]>>)
                   IN  IF ch.t # "dict" THEN Raise("AttributeError")
                       ELSE Return(ChapterFromEntry(ch, include_illustration))
    ELSE Return(PaddedChapter(topic))

\* lines 361-379: the loop stops at the first index that raises
ChaptersFromResult(result, topic, chapter_count, include_illustration) ==
    LET chapters == DictGet(result, Key("chapters"), PyList(<<>>))
        at == [i \in 1..chapter_count |->
                  ChapterAt(chapters, i - 1, topic, include_illustration)]
        bad == {i \in 1..chapter_count : at[i].kind = "raise"}
    IN  IF bad # {}
        THEN Raise(at[CHOOSE i \in bad : \A j \in bad : i <= j].exc)
        ELSE Return(PyList([i \in 1..chapter_count |-> at[i].value]))

\* lines 384-391
FallbackChapters(topic, chapter_count) ==
    PyList([i \in 1..chapter_count |-> FallbackChapter(topic, i - 1)])

\* lines 328 and 354-391 applied to the LLM's response
AllChapters(text, topic, chapter_titles, include_illustration) ==
    LET chapter_count == Len(chapter_titles)
        parsed == ExtractJson(text)
    IN  IF parsed.ok
        THEN ChaptersFromResult(parsed.v, topic, chapter_count, include_illustration)
        ELSE Return(FallbackChapters(topic, chapter_count))

(***************************************************************************)
(* generate_social_captions                                                *)
(***************************************************************************)
\* lines 230 and 240: "a children's science picture book about {topic},
\* for ages 7-10."
ZhCaption(topic) == <<"yiben-guanyu">> \o topic \o <<"de-ertong-kepu-huiben,shihe-7-10-sui-yuedu.">>

\* lines 233 and 241
EnCaption(topic) == <<"A fun picture book about ">> \o topic \o <<" for kids ages 7-10.">>

CaptionRecord(zh, en) == PyDict(<<Key("zh"), Key("en")>>, <<zh, en>>)

\* result.get(key) or default: the default also for a supplied null or ""
GetOr(result, key, default) ==
    LET v == DictGet(result, key, None)
    IN  IF v = None \/ v = PyStr(<<>>) THEN default ELSE v

CaptionsFromResult_OrTemplate(result, topic) ==
    CaptionRecord(GetOr(result, Key("zh"), PyStr(ZhCaption(topic))),
                  GetOr(result, Key("en"), PyStr(EnCaption(topic))))

\* lines 229-235
CaptionsFromResult(result, topic) ==
    CaptionRecord(DictGet(result, Key("zh"), PyStr(ZhCaption(topic))),
                  DictGet(result, Key("en"), PyStr(EnCaption(topic))))

\* lines 224-242 applied to the LLM's response
SocialCaptions(text, topic) ==
    LET parsed == ExtractJson(text)
    IN  IF parsed.ok THEN Return(CaptionsFromResult(parsed.v, topic))
        ELSE Return(CaptionRecord(PyStr(ZhCaption(topic)), PyStr(EnCaption(topic))))

(***************************************************************************)
(* adapt                                                                   *)
(***************************************************************************)
\* the str an LLM response is: its tokens one after the other
RECURSIVE TextOf(_)
TextOf(toks) ==
    IF toks = <<>> THEN <<>>
    ELSE LET tok == Head(toks)
             glyphs == CASE tok.k = "str"  -> <<"\"">> \o tok.s \o <<"\"">>
                         [] tok.k = "num"  -> tok.s
                         [] tok.k = "text" -> tok.s
                         [] OTHER          -> <<tok.k>>
         IN  glyphs \o TextOf(Tail(toks))

\* sep.join(parts) for a list of str
RECURSIVE Join(_, _)
Join(sep, parts) ==
    IF parts = <<>> THEN <<>>
    ELSE IF Len(parts) = 1 THEN parts[1].s
    ELSE parts[1].s \o sep \o Join(sep, Tail(parts))

\* line 133: "\n\n".join(knowledge.get("content", []))
RawContent(knowledge) ==
    Join(<<"\n\n">>, DictGet(knowledge, Key("content"), PyList(<<>>)).items)

AdaptedRecord(summary, sources, original_content) ==
    PyDict(<<Key("summary"), Key("sources"), Key("original_content")>>,
           <<summary, sources, original_content>>)

\* line 135, `not raw_content`, read as its negation: the adaptation branch
\* is taken for every content list
FromScratch_Never(knowledge) == FALSE

\* line 135: `not raw_content`
FromScratch(knowledge) == RawContent(knowledge) = <<>>

\* lines 164-170
ContentFromScratch(text) ==
    AdaptedRecord(PyStr(TextOf(text)), PyList(<<PyStr(<<"AI generated content">>)>>), PyStr(<<>>))

\* lines 132-147 applied to the LLM's response
Adapt(text, knowledge) ==
    IF FromScratch(knowledge) THEN Return(ContentFromScratch(text))
    ELSE Return(AdaptedRecord(PyStr(TextOf(text)),
                              DictGet(knowledge, Key("sources"), PyList(<<>>)),
                              PyStr(RawContent(knowledge))))

(***************************************************************************)
(* PictureBookGenerator._create_book_structure: the per-language default   *)
(* titles.                                                                 *)
(***************************************************************************)
Languages == {"zh", "en", "ja", "ko"}

\* default_titles[language]
DefaultTitle(language, topic) ==
    CASE language = "en" -> <<"Exploring the World of ">> \o topic
      [] language = "zh" -> <<"tansuo">> \o topic \o <<"de-qimiao-shijie">>
      [] language = "ja" -> topic \o <<"no-fushigi-na-sekai">>
      [] language = "ko" -> topic \o <<"ui-sinbiroun-segye">>

(***************************************************************************)
(* The inputs: what callers pass and what the LLM may answer.              *)
(***************************************************************************)
\* "konglong" (dinosaur) and "ocean", the topics of the tests
Topics == {<<"konglong">>, <<"ocean">>}

AgeRanges == {<<7, 10>>, <<3, 6>>}

\* chapter_titles of length m
ChapterTitles(m) == [j \in 1..m |-> <<"Ch">> \o IntToStr(j)]

\* a member the payload leaves out
Absent == [t |-> "absent", s |-> <<>>, keys |-> <<>>, items |-> <<>>]

\* the dict of the members (<<key, value>>) that are not Absent
DictOf(members) ==
    LET Present(m) == m[2] # Absent
        kept == SelectSeq(members, Present)
    IN  PyDict([i \in 1..Len(kept) |-> kept[i][1]], [i \in 1..Len(kept) |-> kept[i][2]])

\* values of `chapters` that are no list
NonLists == {None, PyStr(<<"a", "b">>), PyNum(<<"5">>), PyDict(<<Key("x")>>, <<None>>)}

\* k chapter titles as the LLM writes them
ModelTitles(k) == PyList([j \in 1..k |-> PyStr(<<"T">> \o IntToStr(j))])

StructurePayloads ==
    { DictOf(<<<<Key("title"), title>>, <<Key("summary"), summary>>, <<Key("chapters"), chapters>>>>) :
        title \in {Absent, PyStr(<<"T">>)},
        summary \in {Absent, PyStr(<<"S">>)},
        chapters \in {Absent} \cup NonLists \cup {ModelTitles(k) : k \in 0..MaxParsed} }

\* one entry of the `chapters` list of a chapter payload, for index j
EntryKinds == {"full", "no_illustration", "no_content", "no_knowledge_points", "empty", "not_a_record"}

Entry(kind, j) ==
    LET content == PyStr(<<"body">> \o IntToStr(j))
        points  == PyList(<<PyStr(<<"point">> \o IntToStr(j))>>)
        prompt  == PyStr(<<"scene">> \o IntToStr(j))
    IN  CASE kind = "full" ->
               DictOf(<<<<Key("content"), content>>, <<Key("knowledge_points"), points>>,
                        <<Key("illustration_prompt"), prompt>>>>)
          [] kind = "no_illustration" ->
               DictOf(<<<<Key("content"), content>>, <<Key("knowledge_points"), points>>>>)
          [] kind = "no_content" ->
               DictOf(<<<<Key("knowledge_points"), points>>, <<Key("illustration_prompt"), prompt>>>>)
          [] kind = "no_knowledge_points" ->
               DictOf(<<<<Key("content"), content>>, <<Key("illustration_prompt"), prompt>>>>)
          [] kind = "empty" -> PyDict(<<>>, <<>>)
          [] kind = "not_a_record" -> content

\* the entry kinds of a list of k entries: full entries, but for at most one
EntryKindLists(k) ==
    { [j \in 1..k |-> IF j = d THEN kind ELSE "full"] : d \in 0..k, kind \in EntryKinds }

ChapterPayloads ==
    { DictOf(<<<<Key("chapters"), chapters>>>>) :
        chapters \in {Absent} \cup NonLists \cup
            UNION { { PyList([j \in 1..k |-> Entry(kinds[j], j)]) : kinds \in EntryKindLists(k) } :
                    k \in 0..MaxParsed } }

CaptionPayloads ==
    { DictOf(<<<<Key("zh"), zh>>, <<Key("en"), en>>>>) :
        zh \in {Absent, None, PyStr(<<>>), PyStr(<<"zhongwen">>)},
        en \in {Absent, None, PyStr(<<>>), PyStr(<<"English">>)} }

\* the content lists of a knowledge record: none, empty strings only, one
\* and two found texts
ContentLists ==
    { PyList(<<>>), PyList(<<PyStr(<<>>)>>), PyList(<<PyStr(<<>>), PyStr(<<>>)>>),
      PyList(<<PyStr(<<"fact1">>)>>), PyList(<<PyStr(<<"fact1">>), PyStr(<<"fact2">>)>>) }

SourceLists == { PyList(<<>>), PyList(<<PyStr(<<"https://example.com">>)>>),
                 PyList(<<PyStr(<<"https://a.example">>), PyStr(<<"https://b.example">>)>>) }

\* the knowledge records adapt is called with
KnowledgeRecords ==
    { DictOf(<<<<Key("topic"), topic>>, <<Key("content"), content>>, <<Key("sources"), sources>>>>) :
        topic \in {Absent} \cup {PyStr(t) : t \in Topics},
        content \in {Absent} \cup ContentLists,
        sources \in {Absent} \cup SourceLists }

\* what the LLM answers to the adaptation prompts: free text
AdaptResponses ==
    { <<>>, <<Prose(<<"Dinosaurs lived long ago.">>)>>,
      <<Prose(<<"Summary:">>)>> \o Dumps(PyDict(<<Key("summary")>>, <<PyStr(<<"S">>)>>)) }

\* the texts an LLM wraps around a payload: none, prose on both sides, and
\* a trailing comment that holds a closing brace
Wrappings(body) ==
    { body,
      <<Prose(<<"Here is the structure:">>)>> \o body \o <<Prose(<<"Hope this helps!">>)>>,
      body \o <<Prose(<<"as in">>), Tok("}")>> }

\* responses with no usable payload: the empty text, prose, a closing brace
\* before the opening one, an unclosed object, braces around text that is
\* no JSON
Unparsable ==
    { <<>>,
      <<Prose(<<"no json here">>)>>,
      <<Prose(<<"see">>), Tok("}"), Prose(<<"and">>), Tok("{")>>,
      <<Tok("{"), StrTok(Key("title")), Tok(":"), StrTok(<<"T">>)>>,
      <<Tok("{"), Prose(<<"not json">>), Tok("}")>> }

\* two complete objects in one response
TwoObjects(first) == Dumps(first) \o Dumps(PyDict(<<Key("note")>>, <<PyStr(<<"n">>)>>))

Responses(payloads) ==
    UNION { Wrappings(Dumps(p)) : p \in payloads } \cup Unparsable
        \cup { TwoObjects(p) : p \in payloads }

(***************************************************************************)
(* KnowledgeSearchService (services/knowledge_search.py).  search starts   *)
(* one coroutine per usable provider and awaits them together; each        *)
(* provider method runs under tenacity's @retry.                           *)
(***************************************************************************)
\* the providers, in the order search appends their coroutines to `tasks`
Providers == <<"tavily", "serpapi", "wikipedia">>

ProviderSet == {Providers[i] : i \in 1..Len(Providers)}

\* stop_after_attempt(3) of the @retry decorators
StopAfterAttempt == 3

\* the API key a provider method reads from the settings; Wikipedia has none
ApiKey(st, p) ==
    CASE p = "tavily"  -> st.tavily_api_key
      [] p = "serpapi" -> st.serp_api_key
      [] OTHER         -> "no key needed"

\* every provider started, whatever the keys
Tasks_All(st) == Providers

\* lines 49-60: the coroutines search creates
Tasks(st) ==
    LET Usable(p) == p = "wikipedia" \/ ApiKey(st, p) # ""
    IN  SelectSeq(Providers, Usable)

SearchResult(content, sources) ==
    PyDict(<<Key("content"), Key("sources")>>, <<PyList(content), PyList(sources)>>)

\* {"content": [], "sources": []}
EmptyResult == SearchResult(<<>>, <<>>)

\* what a provider returns when its request succeeded: Tavily an answer
\* summary and a result, SerpAPI a snippet, Wikipedia the page extract
FoundResult(p) ==
    CASE p = "tavily" ->
            SearchResult(<<PyStr(<<"[Tavily] ", "answer">>), PyStr(<<"tavily result">>)>>,
                         <<PyStr(<<"https://tavily.example">>)>>)
      [] p = "serpapi" ->
            SearchResult(<<PyStr(<<"serpapi snippet">>)>>, <<PyStr(<<"https://serpapi.example">>)>>)
      [] OTHER ->
            SearchResult(<<PyStr(<<"[Wikipedia] ", "extract">>)>>,
                         <<PyStr(<<"https://en.wikipedia.org/wiki/page">>)>>)

\* a coroutine of `tasks`: not created, running, returned or raised
NotStarted == [state |-> "not_started", attempts |-> 0, result |-> None]

Running == [state |-> "running", attempts |-> 0, result |-> None]

IsFinished(b) == b.state \in {"returned", "raised"}

\* what asyncio.gather(..., return_exceptions=True) holds for a finished
\* coroutine: its value, or the exception tenacity raised after the last
\* attempt
OutcomeOf(b) == IF b.state = "returned" THEN Return(b.result) ELSE Raise("RetryError")

\* lines 42-46
NewResults(topic) ==
    PyDict(<<Key("topic"), Key("content"), Key("sources")>>,
           <<PyStr(topic), PyList(<<>>), PyList(<<>>)>>)

\* list.extend
Extend(list, more) == PyList(list.items \o more.items)

\* lines 66-70: the loop over search_results
RECURSIVE MergeInto(_, _)
MergeInto(results, search_results) ==
    IF search_results = <<>> THEN results
    ELSE LET result == Head(search_results)
             merged ==
                IF result.kind = "raise" THEN results
                ELSE DictSet(
                       DictSet(results, Key("content"),
                               Extend(DictGet(results, Key("content"), PyList(<<>>)),
                                      DictGet(result.value, Key("content"), PyList(<<>>)))),
                       Key("sources"),
                       Extend(DictGet(results, Key("sources"), PyList(<<>>)),
                              DictGet(result.value, Key("sources"), PyList(<<>>))))
         IN  MergeInto(merged, Tail(search_results))

\* the loop left at the first exception (break for continue)
Merge_StopAtException(topic, search_results) ==
    LET Raised(i) == search_results[i].kind = "raise"
        stop == IF \E i \in 1..Len(search_results) : Raised(i)
                THEN CHOOSE i \in 1..Len(search_results) :
                        Raised(i) /\ \A j \in 1..(i - 1) : ~Raised(j)
                ELSE Len(search_results) + 1
    IN  MergeInto(NewResults(topic), SubSeq(search_results, 1, stop - 1))

\* lines 42-46 and 66-72
Merge(topic, search_results) == MergeInto(NewResults(topic), search_results)

\* the settings a service is built with: each key empty or set
SettingsSet == [tavily_api_key : {"", "tvly-key"}, serp_api_key : {"", "serp-key"}]

\* how one request of _search_tavily / _search_serpapi ends: a 200 answer,
\* a non-401 error status, a 401, and any other exception (no connection,
\* a body that is no JSON)
HttpOutcomes == {"ok", "status_error", "unauthorized", "other_error"}

\* how _fetch_wikipedia_page ends, and the requests it sent by then: the
\* summary found at once, found through the search API, not found, and an
\* exception on the first request
WikipediaOutcomes == {"found", "searched", "missing", "error"}

WikipediaRequests(outcome) ==
    CASE outcome = "found"    -> 1
      [] outcome = "searched" -> 3
      [] outcome = "missing"  -> 2
      [] OTHER                -> 1

NoSettings == [tavily_api_key |-> "", serp_api_key |-> ""]

(***************************************************************************)
(* PictureBookGenerator (core/generator.py) and the two front ends that    *)
(* run it, the generate command (cli.py) and the web app (app.py).         *)
(***************************************************************************)
\* ge=3 of BookConfig.chapter_count
MinChapterCount == 3

\* the four steps of generate, in program order
Steps == <<"search", "adapt", "structure", "chapters">>

StepSet == {Steps[i] : i \in 1..Len(Steps)}

\* lines 92-97: target_age
AgeFormat(language, age_range) ==
    LET span == IntToStr(age_range[1]) \o <<"-">> \o IntToStr(age_range[2])
    IN  CASE language = "zh" -> span \o <<"sui">>
          [] language = "ja" -> span \o <<"sai">>
          [] language = "ko" -> span \o <<"se">>
          [] OTHER           -> <<"Ages ">> \o span

\* Chapter(number, title, content="", knowledge_points=[])
NewChapter(number, title) ==
    [number |-> number, title |-> title, content |-> PyStr(<<>>),
     illustration_prompt |-> None, knowledge_points |-> PyList(<<>>)]

\* line 115, i from 0: chapter_titles[i] if i < len(chapter_titles) else
\* f"Chapter {i+1}"
ChapterTitle(chapter_titles, i) ==
    IF i < PyLen(chapter_titles) THEN chapter_titles.items[i + 1]
    ELSE PyStr(<<"Chapter ">> \o IntToStr(i + 1))

\* one chapter per title, however many were asked for
BookChapters_PerTitle(chapter_titles, chapter_count) ==
    [n \in 1..PyLen(chapter_titles) |-> NewChapter(n, ChapterTitle(chapter_titles, n - 1))]

\* lines 112-120: range(config.chapter_count)
BookChapters(chapter_titles, chapter_count) ==
    [n \in 1..chapter_count |-> NewChapter(n, ChapterTitle(chapter_titles, n - 1))]

\* pydantic's validation of PictureBook and Chapter: the str fields hold str
ValidBook(b) ==
    /\ b.title.t = "str" /\ b.summary.t = "str"
    /\ \A n \in 1..Len(b.chapters) : b.chapters[n].title.t = "str"
    /\ b.sources.t = "list" /\ \A n \in 1..Len(b.sources.items) : b.sources.items[n].t = "str"

NoBook ==
    [title |-> None, topic |-> <<>>, language |-> "en", target_age |-> <<>>,
     summary |-> None, chapters |-> <<>>, sources |-> PyList(<<>>)]

\* lines 89-122, outline the record generate_book_structure returned
CreateBook(cfg, adapted, outline) ==
    LET chapter_titles == DictGet(outline, Key("chapters"), PyList(<<>>))
        b == [title |-> DictGet(outline, Key("title"),
                                PyStr(DefaultTitle(cfg.language, cfg.topic))),
              topic |-> cfg.topic,
              language |-> cfg.language,
              target_age |-> AgeFormat(cfg.language, cfg.age_range),
              summary |-> DictGet(outline, Key("summary"), PyStr(<<>>)),
              chapters |-> BookChapters(chapter_titles, cfg.chapter_count),
              sources |-> DictGet(adapted, Key("sources"), PyList(<<>>))]
    IN  IF chapter_titles.t # "list" THEN Raise("TypeError")
        ELSE IF ~ValidBook(b) THEN Raise("ValidationError")
        ELSE Return(b)

\* lines 150-154 for one chapter and its record
FillChapter(chapter, chapter_data, include_illustrations) ==
    [chapter EXCEPT
        !.content = DictGet(chapter_data, Key("content"), PyStr(<<>>)),
        !.knowledge_points = DictGet(chapter_data, Key("knowledge_points"), PyList(<<>>)),
        !.illustration_prompt =
            IF include_illustrations
            THEN DictGet(chapter_data, Key("illustration_prompt"), None)
            ELSE chapter.illustration_prompt]

\* lines 148-156, records the list generate_all_chapters returned; a
\* record that is no dict has no .get (AttributeError)
FillChapters(b, records, include_illustrations) ==
    LET Filled(n) == n <= PyLen(records)
    IN  IF \E n \in 1..Len(b.chapters) : Filled(n) /\ records.items[n].t # "dict"
        THEN Raise("AttributeError")
        ELSE Return([b EXCEPT !.chapters =
                        [n \in 1..Len(b.chapters) |->
                            IF Filled(n)
                            THEN FillChapter(b.chapters[n], records.items[n],
                                             include_illustrations)
                            ELSE b.chapters[n]]])

\* the parameters of NotebookLMService.upload_and_generate_slides
\* (notebooklm.py:322-324) and the names both front ends pass
SlidesParameters == {"content", "title", "download_dir"}

SlidesArguments ==
    {"content", "title", "download_dir", "instructions", "language", "slide_format",
     "slide_length"}

\* how the call of upload_and_generate_slides can end: Python binds the
\* arguments first, and a name the method does not take is a TypeError
\* before its body runs; a bound call uploads and ends with the path of the
\* downloaded slides, or with the exception of the upload or of the slide
\* generation
SlidesOutcomes ==
    IF SlidesArguments \subseteq SlidesParameters
    THEN {Return(PyStr(<<"slides.pdf">>)), Raise("ImportError"), Raise("Exception"),
          Raise("TimeoutError")}
    ELSE {Raise("TypeError")}

(***************************************************************************)
(* TelegramService (services/telegram.py).  An image path is the position  *)
(* of the image in the list the caller passed; a file handle is named by   *)
(* the path it was opened on.                                              *)
(***************************************************************************)
\* batch_size of send_book_slides
BatchSize == 10

\* photo_paths[:10] of send_media_group
MediaGroupLimit == 10

\* the longest image list a caller passes: two full batches and one image
MaxImages == 21

\* f"📚 <b>{book_title}</b>"
TitleCaption(name) == <<"[books] <b>">> \o name \o <<"</b>">>

\* what one call of a send method did: how it ended, the request it posted
\* (None when it raised before client.post), the handles it opened and the
\* ones it closed
Sent(outcome, request, opened, closed) ==
    [ret |-> outcome, request |-> request, opened |-> opened, closed |-> closed]

\* how a post that was sent ends: resp.json(), or the exception of
\* client.post / raise_for_status
PostOutcomes == {"ok", "error"}

PostRet(post) == IF post = "ok" THEN Return(None) ELSE Raise("HTTPError")

\* lines 29-37
SendMessage(post_text, post) ==
    Sent(PostRet(post),
         [method |-> "sendMessage", photos |-> <<>>, caption |-> <<>>,
          text |-> post_text, ok |-> post = "ok"],
         {}, {})

\* lines 39-55: the file is opened inside `with`, which closes it however
\* the post ends; a file that cannot be opened raises before the post
SendPhoto(photo_path, caption, bad, post) ==
    IF photo_path \in bad
    THEN Sent(Raise("FileNotFoundError"), None, {}, {})
    ELSE Sent(PostRet(post),
              [method |-> "sendPhoto", photos |-> <<photo_path>>, caption |-> caption,
               text |-> "", ok |-> post = "ok"],
              {photo_path}, {photo_path})

\* lines 66-72: the media list; the first item alone takes the caption, and
\* only a non-empty one
Media(photo_paths, caption) ==
    LET listed == Slice(photo_paths, 0, MediaGroupLimit)
    IN  [i \in 1..Len(listed) |->
            [type |-> "photo", media |-> i - 1,
             caption |-> IF i = 1 /\ caption # <<>> THEN caption ELSE <<>>]]

\* every handle closed before the exception of open() leaves the method
SendMediaGroup_CloseOnOpenFailure(photo_paths, caption, bad, post) ==
    LET listed == Slice(photo_paths, 0, MediaGroupLimit)
        media == Media(photo_paths, caption)
        all == {listed[i] : i \in 1..Len(listed)}
        before == {listed[i] : i \in {j \in 1..Len(listed) :
                                        \A k \in 1..j : listed[k] \notin bad}}
    IN  IF \E i \in 1..Len(listed) : listed[i] \in bad
        THEN Sent(Raise("FileNotFoundError"), None, before, before)
        ELSE Sent(PostRet(post),
                  [method |-> "sendMediaGroup", photos |-> listed,
                   caption |-> IF media = <<>> THEN <<>> ELSE media[1].caption,
                   text |-> "", ok |-> post = "ok"],
                  all, all)

\* lines 57-92.  Lines 76-79 open the files one after the other outside the
\* try: when open() raises on a later file the handles opened before it are
\* not closed by the method.  Lines 81-92 post inside try/finally, which
\* closes every handle however the post ends.
SendMediaGroup(photo_paths, caption, bad, post) ==
    LET listed == Slice(photo_paths, 0, MediaGroupLimit)
        media == Media(photo_paths, caption)
        all == {listed[i] : i \in 1..Len(listed)}
        before == {listed[i] : i \in {j \in 1..Len(listed) :
                                        \A k \in 1..j : listed[k] \notin bad}}
    IN  IF \E i \in 1..Len(listed) : listed[i] \in bad
        THEN Sent(Raise("FileNotFoundError"), None, before, {})
        ELSE Sent(PostRet(post),
                  [method |-> "sendMediaGroup", photos |-> listed,
                   caption |-> IF media = <<>> THEN <<>> ELSE media[1].caption,
                   text |-> "", ok |-> post = "ok"],
                  all, all)

\* the batches one image further on
Batch_FromOne(paths, at) == Slice(paths, at + 1, at + 1 + BatchSize)

\* line 120: image_paths[start : start + batch_size]
Batch(paths, at) == Slice(paths, at, at + BatchSize)

\* lines 124-131: one batch goes out, a single image through send_photo
SendOneBatch(batch, caption, bad, post) ==
    IF Len(batch) = 1
    THEN SendPhoto(batch[1], caption, bad, post)
    ELSE SendMediaGroup(batch, caption, bad, post)

\* the image lists a caller passes and the files of them that cannot be
\* opened: none, or one of them
ImageLists == {[i \in 1..n |-> i] : n \in 0..MaxImages}

BadFiles(paths) == {{}} \cup {{paths[i]} : i \in 1..Len(paths)}

BookTitles == {<<>>, <<"T">>}

(***************************************************************************)
(* NotebookLMService (services/notebooklm.py).                             *)
(***************************************************************************)
\* check_interval=5 and max_wait_time=600 of the call in generate_slides
SlidesCheckInterval == 5

SlidesMaxWaitTime == 600

\* the largest check_interval and max_wait_time of a call of
\* _wait_with_progress on its own
MaxCheckInterval == 3

MaxWaitTime == 6

\* what a poll of the task reports: one of the GenerationStatus flags, a
\* failed status whose error text holds "not found", a status with no flag
\* set, or an exception of poll_status (one that names "not found" / "404",
\* or another)
Statuses ==
    {"complete", "failed", "failed_not_found", "rate_limited", "pending", "in_progress",
     "unknown"}

PollOutcomes == Statuses \cup {"not_found_error", "other_error"}

\* the statuses after which the loop sleeps and polls again
Waiting == {"rate_limited", "pending", "in_progress", "unknown"}

\* an unknown status polled again at once
SleepOf_NotWhenUnknown(polled, interval) ==
    IF polled = "unknown" THEN 0 ELSE IF polled = "rate_limited" THEN interval * 2 ELSE interval

\* lines 94-95, 105-106 and 110-111: the seconds slept, and added to
\* elapsed, after a poll
SleepOf(polled, interval) == IF polled = "rate_limited" THEN interval * 2 ELSE interval

\* lines 83-91 and 113-117: how a poll that does not sleep leaves the
\* method.  The exception of a failed status is raised inside the try and
\* passes through the handler of line 113 like an exception of poll_status.
PollEnds(polled) ==
    CASE polled = "complete"         -> Return(PyStr(<<polled>>))
      [] polled = "failed"           -> Raise("Exception: failed")
      [] polled = "failed_not_found" -> Raise("Exception: not found or expired")
      [] polled = "not_found_error"  -> Raise("Exception: not found or expired")
      [] polled = "other_error"      -> Raise("ConnectionError")
      [] OTHER                       -> NoRet

\* the download goes ahead however the wait ended
AfterWait_DownloadAnyway(operation, waited) ==
    IF operation = "generate_slides" THEN "download" ELSE "done"

\* lines 270-289 of generate_slides: the wait returned and the download
\* block follows, or its exception was re-raised; _wait_with_progress
\* awaited on its own is over either way
AfterWait(operation, waited) ==
    IF operation = "generate_slides" /\ waited.kind = "return" THEN "download" ELSE "done"

\* the titles of upload, the timestamp datetime.now() formats to at the
\* time of the call, and the titles a notebook can hold by then
UploadTitles == {<<"Book">>}

Timestamps == {<<"20260101_000000">>, <<"20260101_000001">>}

\* f"{title}_{timestamp}"
Stamped(name, timestamp) == name \o <<"_">> \o timestamp

SourceTitles ==
    UploadTitles \cup {<<"Other">>}
        \cup {Stamped(name, timestamp) : name \in UploadTitles, timestamp \in Timestamps}

\* lines 190-193: the title itself, or the title with the timestamp when a
\* source of that title exists
SourceTitle(name, existing, timestamp) ==
    IF name \in existing THEN Stamped(name, timestamp) ELSE name

(***************************************************************************)
(* The state machine: one call of one of the four operations.  A call      *)
(* builds its prompt and awaits the LLM (pc = "llm"); when the LLM answers *)
(* the rest of the method runs to its return or to an uncaught exception   *)
(* (pc = "done").                                                          *)
(***************************************************************************)
NoArgs ==
    [topic |-> <<>>, language |-> "en", age_range |-> <<0, 0>>, chapter_count |-> 0,
     chapter_titles |-> <<>>, include_illustration |-> FALSE,
     knowledge |-> PyDict(<<>>, <<>>)]

\* no ContentAdapterService call was made
AdapterIdle ==
    /\ pc = "idle"
    /\ op = "none"
    /\ args = NoArgs
    /\ response = <<>>
    /\ ret = NoRet
    /\ llmCalls = 0

\* no KnowledgeSearchService call was made
SearchIdle ==
    /\ spc = "idle"
    /\ sop = "none"
    /\ settings = NoSettings
    /\ searchTopic = <<>>
    /\ tasks = <<>>
    /\ branch = [p \in ProviderSet |-> NotStarted]
    /\ http = [p \in ProviderSet |-> 0]
    /\ finished = <<>>
    /\ searchRet = NoRet

NoConfig ==
    [topic |-> <<>>, language |-> "en", age_range |-> <<7, 10>>,
     chapter_count |-> MinChapterCount, include_illustrations |-> TRUE]

NoOptions == [nlm_slides |-> FALSE, nlm_import |-> "ok", file_before |-> FALSE]

\* no run of generate was started
GenIdle ==
    /\ entryPoint = "none"
    /\ gpc = "idle"
    /\ config = NoConfig
    /\ binding = "class"
    /\ options = NoOptions
    /\ started = [step \in StepSet |-> 0]
    /\ completed = [step \in StepSet |-> 0]
    /\ knowledgeFound = None
    /\ adapted_content = None
    /\ structure = None
    /\ chapters_data = None
    /\ book = NoBook
    /\ genRet = NoRet
    /\ bookFile = "absent"
    /\ slidesCalls = 0
    /\ slidesRet = NoRet
    /\ slides_path = None
    /\ exitState = "running"
    /\ client = "none"

\* no TelegramService call was started
TelegramIdle ==
    /\ tpc = "idle"
    /\ tgOp = "none"
    /\ image_paths = <<>>
    /\ book_title = <<>>
    /\ unreadable = {}
    /\ batchStart = 0
    /\ posted = <<>>
    /\ openFiles = {}
    /\ tgRet = NoRet

\* no NotebookLMService call was started
NotebookIdle ==
    /\ npc = "idle"
    /\ nlmOp = "none"
    /\ check_interval = 1
    /\ max_wait_time = 0
    /\ elapsed = 0
    /\ slept = 0
    /\ polls = 0
    /\ lastStatus = "none"
    /\ reportedWait = 0
    /\ downloads = 0
    /\ existing_names = {}
    /\ source_title = <<>>
    /\ nlmRet = NoRet

Init == AdapterIdle /\ SearchIdle /\ GenIdle /\ TelegramIdle /\ NotebookIdle

\* lines 266-275: the prompt is rendered and sent
CallBookStructure(topic, language, age_range, chapter_count) ==
    /\ pc = "idle"
    /\ pc' = "llm"
    /\ op' = "generate_book_structure"
    /\ args' = [NoArgs EXCEPT !.topic = topic, !.language = language,
                              !.age_range = age_range, !.chapter_count = chapter_count]
    /\ llmCalls' = llmCalls + 1
    /\ UNCHANGED <<response, ret>>
    /\ UNCHANGED notAdapterVars

\* lines 275-302
ReturnBookStructure ==
    /\ pc = "llm"
    /\ op = "generate_book_structure"
    /\ \E text \in Responses(StructurePayloads) :
          /\ response' = text
          /\ ret' = BookStructure(text, args.topic, args.age_range, args.chapter_count)
    /\ pc' = "done"
    /\ UNCHANGED <<op, args, llmCalls>>
    /\ UNCHANGED notAdapterVars

\* lines 328-348
CallAllChapters(topic, chapter_titles, language, age_range, include_illustration) ==
    /\ pc = "idle"
    /\ pc' = "llm"
    /\ op' = "generate_all_chapters"
    /\ args' = [NoArgs EXCEPT !.topic = topic, !.language = language,
                              !.age_range = age_range, !.chapter_titles = chapter_titles,
                              !.include_illustration = include_illustration]
    /\ llmCalls' = llmCalls + 1
    /\ UNCHANGED <<response, ret>>
    /\ UNCHANGED notAdapterVars

\* lines 348-391
ReturnAllChapters ==
    /\ pc = "llm"
    /\ op = "generate_all_chapters"
    /\ \E text \in Responses(ChapterPayloads) :
          /\ response' = text
          /\ ret' = AllChapters(text, args.topic, args.chapter_titles,
                                args.include_illustration)
    /\ pc' = "done"
    /\ UNCHANGED <<op, args, llmCalls>>
    /\ UNCHANGED notAdapterVars

\* lines 207-220; book_title and summary reach the prompt alone
CallSocialCaptions(topic, language) ==
    /\ pc = "idle"
    /\ pc' = "llm"
    /\ op' = "generate_social_captions"
    /\ args' = [NoArgs EXCEPT !.topic = topic, !.language = language]
    /\ llmCalls' = llmCalls + 1
    /\ UNCHANGED <<response, ret>>
    /\ UNCHANGED notAdapterVars

\* the same with a second request sent when the first answer did not parse
ReturnSocialCaptions_AskAgain ==
    /\ pc = "llm"
    /\ op = "generate_social_captions"
    /\ \E text \in Responses(CaptionPayloads) :
          /\ response' = text
          /\ ret' = SocialCaptions(text, args.topic)
          /\ llmCalls' = IF ExtractJson(text).ok THEN llmCalls ELSE llmCalls + 1
    /\ pc' = "done"
    /\ UNCHANGED <<op, args>>
    /\ UNCHANGED notAdapterVars

\* lines 220-242
ReturnSocialCaptions ==
    /\ pc = "llm"
    /\ op = "generate_social_captions"
    /\ \E text \in Responses(CaptionPayloads) :
          /\ response' = text
          /\ ret' = SocialCaptions(text, args.topic)
    /\ pc' = "done"
    /\ UNCHANGED <<op, args, llmCalls>>
    /\ UNCHANGED notAdapterVars

\* lines 132-141 and 156-164: one of the two prompts is built and sent
CallAdapt(knowledge, age_range, language) ==
    /\ pc = "idle"
    /\ pc' = "llm"
    /\ op' = "adapt"
    /\ args' = [NoArgs EXCEPT !.knowledge = knowledge, !.language = language,
                              !.age_range = age_range]
    /\ llmCalls' = llmCalls + 1
    /\ UNCHANGED <<response, ret>>
    /\ UNCHANGED notAdapterVars

\* lines 141-147 and 164-170
ReturnAdapt ==
    /\ pc = "llm"
    /\ op = "adapt"
    /\ \E text \in AdaptResponses :
          /\ response' = text
          /\ ret' = Adapt(text, args.knowledge)
    /\ pc' = "done"
    /\ UNCHANGED <<op, args, llmCalls>>
    /\ UNCHANGED notAdapterVars

Next ==
    \/ \E knowledge \in KnowledgeRecords, age_range \in AgeRanges, language \in Languages :
            CallAdapt(knowledge, age_range, language)
    \/ ReturnAdapt
    \/ \E topic \in Topics, language \in Languages, age_range \in AgeRanges,
          chapter_count \in 0..MaxChapters :
            CallBookStructure(topic, language, age_range, chapter_count)
    \/ ReturnBookStructure
    \/ \E topic \in Topics, m \in 0..MaxChapters, language \in Languages,
          include_illustration \in BOOLEAN :
            CallAllChapters(topic, ChapterTitles(m), language, <<7, 10>>, include_illustration)
    \/ ReturnAllChapters
    \/ \E topic \in Topics, language \in Languages : CallSocialCaptions(topic, language)
    \/ ReturnSocialCaptions

Spec == Init /\ [][Next]_vars

(***************************************************************************)
(* The state machine of one KnowledgeSearchService call: search, or one of *)
(* the provider methods called on its own.  The coroutines of a search run *)
(* interleaved; an attempt of a provider method is one step.               *)
(***************************************************************************)
\* the coroutines of seq started, the others not created
StartAll(seq) ==
    [p \in ProviderSet |->
        IF \E i \in 1..Len(seq) : seq[i] = p THEN Running ELSE NotStarted]

\* lines 42-63: the tasks are collected and handed to asyncio.gather
CallSearch(topic, st) ==
    /\ spc = "idle"
    /\ spc' = "gather"
    /\ sop' = "search"
    /\ settings' = st
    /\ searchTopic' = topic
    /\ tasks' = Tasks(st)
    /\ branch' = StartAll(Tasks(st))
    /\ UNCHANGED <<http, finished, searchRet>>
    /\ UNCHANGED notSearchVars

\* a provider method awaited on its own, as the tests do
CallProvider(p, topic, st) ==
    /\ spc = "idle"
    /\ spc' = "gather"
    /\ sop' = p
    /\ settings' = st
    /\ searchTopic' = topic
    /\ tasks' = <<p>>
    /\ branch' = StartAll(<<p>>)
    /\ UNCHANGED <<http, finished, searchRet>>
    /\ UNCHANGED notSearchVars

\* lines 90-91 and 155-156: without a key the method returns at once
ReturnWithoutKey(p) ==
    /\ spc = "gather"
    /\ p \in {"tavily", "serpapi"}
    /\ branch[p].state = "running"
    /\ ApiKey(settings, p) = ""
    /\ branch' = [branch EXCEPT ![p] = [state |-> "returned", attempts |-> 1,
                                         result |-> EmptyResult]]
    /\ finished' = Append(finished, p)
    /\ UNCHANGED <<spc, sop, settings, searchTopic, tasks, http, searchRet>>
    /\ UNCHANGED notSearchVars

\* one attempt under stop_after_attempt(4)
ProviderAttempt_FourthAttempt(p, outcome) ==
    /\ spc = "gather"
    /\ p \in {"tavily", "serpapi"}
    /\ branch[p].state = "running"
    /\ ApiKey(settings, p) # ""
    /\ http' = [http EXCEPT ![p] = @ + 1]
    /\ LET attempt == branch[p].attempts + 1
           after ==
             CASE outcome = "ok" ->
                    [state |-> "returned", attempts |-> attempt, result |-> FoundResult(p)]
               [] outcome = "other_error" ->
                    [state |-> "returned", attempts |-> attempt, result |-> EmptyResult]
               [] OTHER ->
                    IF attempt >= StopAfterAttempt + 1
                    THEN [state |-> "raised", attempts |-> attempt, result |-> None]
                    ELSE [state |-> "running", attempts |-> attempt, result |-> None]
       IN  /\ branch' = [branch EXCEPT ![p] = after]
           /\ finished' = IF IsFinished(after) THEN Append(finished, p) ELSE finished
    /\ UNCHANGED <<spc, sop, settings, searchTopic, tasks, searchRet>>
    /\ UNCHANGED notSearchVars

\* lines 93-137 and 158-209: one attempt of _search_tavily / _search_serpapi
\* with a key.  A status error is raised out of the attempt and tenacity
\* runs the method again, until the third attempt has raised.
ProviderAttempt(p, outcome) ==
    /\ spc = "gather"
    /\ p \in {"tavily", "serpapi"}
    /\ branch[p].state = "running"
    /\ ApiKey(settings, p) # ""
    /\ http' = [http EXCEPT ![p] = @ + 1]
    /\ LET attempt == branch[p].attempts + 1
           after ==
             CASE outcome = "ok" ->
                    [state |-> "returned", attempts |-> attempt, result |-> FoundResult(p)]
               [] outcome = "other_error" ->
                    [state |-> "returned", attempts |-> attempt, result |-> EmptyResult]
               [] OTHER ->
                    IF attempt >= StopAfterAttempt
                    THEN [state |-> "raised", attempts |-> attempt, result |-> None]
                    ELSE [state |-> "running", attempts |-> attempt, result |-> None]
       IN  /\ branch' = [branch EXCEPT ![p] = after]
           /\ finished' = IF IsFinished(after) THEN Append(finished, p) ELSE finished
    /\ UNCHANGED <<spc, sop, settings, searchTopic, tasks, searchRet>>
    /\ UNCHANGED notSearchVars

\* lines 223-291: _search_wikipedia; _fetch_wikipedia_page swallows every
\* exception, so the method returns on its first attempt
WikipediaAttempt(outcome) ==
    /\ spc = "gather"
    /\ branch["wikipedia"].state = "running"
    /\ http' = [http EXCEPT !["wikipedia"] = @ + WikipediaRequests(outcome)]
    /\ branch' = [branch EXCEPT !["wikipedia"] =
                    [state |-> "returned", attempts |-> 1,
                     result |-> IF outcome \in {"found", "searched"}
                                THEN FoundResult("wikipedia") ELSE EmptyResult]]
    /\ finished' = Append(finished, "wikipedia")
    /\ UNCHANGED <<spc, sop, settings, searchTopic, tasks, searchRet>>
    /\ UNCHANGED notSearchVars

\* the outcomes in the order the coroutines finished in (asyncio.as_completed
\* rather than asyncio.gather)
SearchResults_InCompletionOrder ==
    IF Len(finished) = Len(tasks)
    THEN [i \in 1..Len(tasks) |-> OutcomeOf(branch[finished[i]])]
    ELSE [i \in 1..Len(tasks) |-> OutcomeOf(branch[tasks[i]])]

\* what asyncio.gather returns: the outcomes in the order of `tasks`
SearchResults == [i \in 1..Len(tasks) |-> OutcomeOf(branch[tasks[i]])]

\* lines 63-72: gather returns when every coroutine has finished, and the
\* results are merged
ReturnSearch ==
    /\ spc = "gather"
    /\ sop = "search"
    /\ \A i \in 1..Len(tasks) : IsFinished(branch[tasks[i]])
    /\ searchRet' = Return(Merge(searchTopic, SearchResults))
    /\ spc' = "done"
    /\ UNCHANGED <<sop, settings, searchTopic, tasks, branch, http, finished>>
    /\ UNCHANGED notSearchVars

\* the provider method awaited on its own returns or raises
ReturnProvider ==
    /\ spc = "gather"
    /\ sop \in ProviderSet
    /\ IsFinished(branch[sop])
    /\ searchRet' = OutcomeOf(branch[sop])
    /\ spc' = "done"
    /\ UNCHANGED <<sop, settings, searchTopic, tasks, branch, http, finished>>
    /\ UNCHANGED notSearchVars

SearchNext ==
    \/ \E topic \in Topics, st \in SettingsSet : CallSearch(topic, st)
    \/ \E p \in ProviderSet, topic \in Topics, st \in SettingsSet : CallProvider(p, topic, st)
    \/ \E p \in ProviderSet : ReturnWithoutKey(p)
    \/ \E p \in ProviderSet, outcome \in HttpOutcomes : ProviderAttempt(p, outcome)
    \/ \E outcome \in WikipediaOutcomes : WikipediaAttempt(outcome)
    \/ ReturnSearch
    \/ ReturnProvider

SpecSearch == Init /\ [][SearchNext]_vars

(***************************************************************************)
(* The state machine of one run of PictureBookGenerator.generate.          *)
(* entryPoint says who runs it: "generate" a caller that awaits it (the    *)
(* tests), "cli" the generate command, "app" generate_picture_book of the  *)
(* web app.                                                                *)
(* binding is what the name KnowledgeSearchService stands for in           *)
(* generator.py when the run starts: "class" the class of                  *)
(* knowledge_search.py, which defines no __aenter__ and no __aexit__, or   *)
(* "stand_in" the patched service of tests/test_generator.py, which        *)
(* defines both.  Each step of generate begins and ends in a transition of *)
(* its own.                                                                *)
(***************************************************************************)
RunConfigs ==
    [topic : Topics, language : {"en", "zh"}, age_range : {<<7, 10>>},
     chapter_count : MinChapterCount..MaxBookChapters, include_illustrations : BOOLEAN]

Bindings == {"class", "stand_in"}

\* --nlm-slides, whether importing services/notebooklm.py succeeds (without
\* the notebooklm package the annotations of line 53 name an undefined
\* NotebookLMClient, a NameError wherever annotations are evaluated when the
\* def is executed), and whether the output file is there before the run
CliOptions == [nlm_slides : BOOLEAN, nlm_import : {"ok", "NameError"}, file_before : BOOLEAN]

\* what the search step hands on: the merged findings, or nothing found; a
\* stand-in may also raise
SearchOutcomes(topic) ==
    { Return(Merge(topic, <<Return(FoundResult("wikipedia"))>>)),
      Return(Merge(topic, <<>>)),
      Raise("Exception") }

\* what adapt hands on, or the exception of the LLM client
AdaptOutcomes(found) ==
    { Adapt(<<Prose(<<"Dinosaurs lived long ago.">>)>>, found), Raise("APIError") }

\* what generate_book_structure (or its stand-in) hands on: a record with
\* any number of chapter titles, with or without a title, or an exception
StructureOutcomes(cfg) ==
    { Return(DictOf(<<<<Key("title"), title>>, <<Key("summary"), PyStr(<<"S">>)>>,
                      <<Key("chapters"), chapters>>>>)) :
        title \in {Absent, None, PyStr(<<"T">>)},
        chapters \in {Absent} \cup {ModelTitles(k) : k \in 0..(cfg.chapter_count + 1)} }
    \cup {Raise("TypeError")}

\* what generate_all_chapters (or its stand-in) hands on: any number of
\* chapter records, a list that holds something else, or an exception
ChapterOutcomes(cfg) ==
    { Return(PyList([j \in 1..m |-> Entry(kind, j)])) :
        m \in 0..(cfg.chapter_count + 1), kind \in {"full", "empty"} }
    \cup {Return(PyList(<<Entry("not_a_record", 1)>>)), Raise("AttributeError")}

\* the run has begun and is about to enter step 1
Begun(who, cfg, bind, opts) ==
    /\ entryPoint' = who
    /\ config' = cfg
    /\ binding' = bind
    /\ options' = opts

\* a caller awaits generate(config)
CallGenerate(cfg, bind) ==
    /\ gpc = "idle"
    /\ Begun("generate", cfg, bind, NoOptions)
    /\ gpc' = "at_search"
    /\ UNCHANGED <<started, completed, knowledgeFound, adapted_content,
                   structure, chapters_data, book, genRet, bookFile,
                   slidesCalls, slidesRet, slides_path, exitState>>
    /\ UNCHANGED client
    /\ UNCHANGED notGenVars

\* cli.py:108-165: the command up to asyncio.run(generator.generate(config)).
\* With --nlm-slides line 150 imports the NotebookLM service, and an
\* existing output file is read instead of generated.
RunCli(cfg, bind, opts) ==
    /\ gpc = "idle"
    /\ Begun("cli", cfg, bind, opts)
    /\ bookFile' = IF opts.file_before THEN "present" ELSE "absent"
    /\ IF opts.nlm_slides /\ opts.nlm_import = "NameError"
       THEN gpc' = "exit" /\ exitState' = "error"
       ELSE IF opts.nlm_slides /\ opts.file_before
       THEN gpc' = "slides" /\ exitState' = exitState
       ELSE gpc' = "at_search" /\ exitState' = exitState
    /\ UNCHANGED <<started, completed, knowledgeFound, adapted_content,
                   structure, chapters_data, book, genRet, slidesCalls,
                   slidesRet, slides_path>>
    /\ UNCHANGED client
    /\ UNCHANGED notGenVars

\* app.py:33-66: generate_picture_book up to asyncio.run(generator.generate);
\* the output file carries a timestamp and is new
RunApp(cfg, bind, generate_slides) ==
    /\ gpc = "idle"
    /\ Begun("app", cfg, bind, [NoOptions EXCEPT !.nlm_slides = generate_slides])
    /\ gpc' = "at_search"
    /\ UNCHANGED <<started, completed, knowledgeFound, adapted_content,
                   structure, chapters_data, book, genRet, bookFile,
                   slidesCalls, slidesRet, slides_path, exitState>>
    /\ UNCHANGED client
    /\ UNCHANGED notGenVars

\* generate ends with an exception
Abort(exc) ==
    /\ genRet' = Raise(exc)
    /\ gpc' = "generated"

\* a step of generate begins
BeginStep(step, at) ==
    /\ gpc = at
    /\ started' = [started EXCEPT ![step] = @ + 1]
    /\ gpc' = "in_" \o step
    /\ UNCHANGED <<entryPoint, config, binding, options, completed,
                   knowledgeFound, adapted_content, structure,
                   chapters_data, book, genRet, bookFile, slidesCalls,
                   slidesRet, slides_path, exitState>>
    /\ client' = IF step = "search" /\ binding = "class" THEN "open" ELSE client
    /\ UNCHANGED notGenVars

\* a step of generate has returned
Completed(step, next) ==
    /\ completed' = [completed EXCEPT ![step] = @ + 1]
    /\ gpc' = next

\* generator.py:43-44: step 1 begins, KnowledgeSearchService(self.settings)
\* is evaluated and its __init__ (knowledge_search.py:25-27) creates the
\* httpx.AsyncClient; the stand-in of the tests creates none
BeginSearch == BeginStep("search", "at_search")

\* generator.py:44 with the class of knowledge_search.py: the object does
\* not support the asynchronous context manager protocol, `async with`
\* raises TypeError and step 1 ends before search is called
EnterServiceFails ==
    /\ gpc = "in_search"
    /\ binding = "class"
    /\ Abort("TypeError")
    /\ UNCHANGED <<entryPoint, config, binding, options, started, completed,
                   knowledgeFound, adapted_content, structure,
                   chapters_data, book, bookFile, slidesCalls, slidesRet,
                   slides_path, exitState>>
    /\ UNCHANGED client
    /\ UNCHANGED notGenVars

\* generator.py:44-46: the service is entered, search awaited and the
\* service left
EndSearch ==
    /\ gpc = "in_search"
    /\ binding = "stand_in"
    /\ \E outcome \in SearchOutcomes(config.topic) :
          IF outcome.kind = "return"
          THEN /\ knowledgeFound' = outcome.value
               /\ Completed("search", "at_adapt")
               /\ UNCHANGED genRet
          ELSE /\ Abort(outcome.exc)
               /\ UNCHANGED <<knowledgeFound, completed>>
    /\ UNCHANGED <<entryPoint, config, binding, options, started,
                   adapted_content, structure, chapters_data, book,
                   bookFile, slidesCalls, slidesRet, slides_path, exitState>>
    /\ UNCHANGED client
    /\ UNCHANGED notGenVars

\* generator.py:49-50
BeginAdapt == BeginStep("adapt", "at_adapt")

\* the exception of adapt swallowed and the run continued with no content
EndAdapt_GoOn ==
    /\ gpc = "in_adapt"
    /\ \E outcome \in AdaptOutcomes(knowledgeFound) :
          IF outcome.kind = "return"
          THEN /\ adapted_content' = outcome.value
               /\ Completed("adapt", "at_structure")
          ELSE /\ adapted_content' = PyDict(<<>>, <<>>)
               /\ gpc' = "at_structure"
               /\ UNCHANGED completed
    /\ UNCHANGED <<entryPoint, config, binding, options, started,
                   knowledgeFound, structure, chapters_data, book, genRet,
                   bookFile, slidesCalls, slidesRet, slides_path, exitState>>
    /\ UNCHANGED client
    /\ UNCHANGED notGenVars

\* generator.py:50-55
EndAdapt ==
    /\ gpc = "in_adapt"
    /\ \E outcome \in AdaptOutcomes(knowledgeFound) :
          IF outcome.kind = "return"
          THEN /\ adapted_content' = outcome.value
               /\ Completed("adapt", "at_structure")
               /\ UNCHANGED genRet
          ELSE /\ Abort(outcome.exc)
               /\ UNCHANGED <<adapted_content, completed>>
    /\ UNCHANGED <<entryPoint, config, binding, options, started,
                   knowledgeFound, structure, chapters_data, book, bookFile,
                   slidesCalls, slidesRet, slides_path, exitState>>
    /\ UNCHANGED client
    /\ UNCHANGED notGenVars

\* generator.py:58-59 and 81
BeginStructure == BeginStep("structure", "at_structure")

\* generator.py:81-122 and 59-60: _create_book_structure from the answer of
\* generate_book_structure on
EndStructure ==
    /\ gpc = "in_structure"
    /\ \E outcome \in StructureOutcomes(config) :
          LET created == IF outcome.kind = "return"
                         THEN CreateBook(config, adapted_content, outcome.value)
                         ELSE outcome
          IN  /\ structure' = outcome.value
              /\ IF created.kind = "return"
                 THEN /\ book' = created.value
                      /\ Completed("structure", "at_chapters")
                      /\ UNCHANGED genRet
                 ELSE /\ Abort(created.exc)
                      /\ UNCHANGED <<book, completed>>
    /\ UNCHANGED <<entryPoint, config, binding, options, started,
                   knowledgeFound, adapted_content, chapters_data, bookFile,
                   slidesCalls, slidesRet, slides_path, exitState>>
    /\ UNCHANGED client
    /\ UNCHANGED notGenVars

\* generator.py:63-64 and 135-138
BeginChapters == BeginStep("chapters", "at_chapters")

\* generator.py:138-156 and 64-68: _generate_chapters from the answer of
\* generate_all_chapters on, and the return of generate; the book returned
\* is `book`
EndChapters ==
    /\ gpc = "in_chapters"
    /\ \E outcome \in ChapterOutcomes(config) :
          LET filled == IF outcome.kind = "return"
                        THEN FillChapters(book, outcome.value, config.include_illustrations)
                        ELSE outcome
          IN  /\ chapters_data' = outcome.value
              /\ IF filled.kind = "return"
                 THEN /\ book' = filled.value
                      /\ Completed("chapters", "generated")
                      /\ genRet' = Return(None)
                 ELSE /\ Abort(filled.exc)
                      /\ UNCHANGED <<book, completed>>
    /\ UNCHANGED <<entryPoint, config, binding, options, started,
                   knowledgeFound, adapted_content, structure, bookFile,
                   slidesCalls, slidesRet, slides_path, exitState>>
    /\ UNCHANGED client
    /\ UNCHANGED notGenVars

\* cli.py:162-172 and 209-219: a failed generation is Exit(1); a book is
\* written to the output file, and only then does the command go on to
\* NotebookLM
CliAfterGenerate ==
    /\ entryPoint = "cli"
    /\ gpc = "generated"
    /\ IF genRet.kind = "raise"
       THEN gpc' = "exit" /\ exitState' = "error" /\ UNCHANGED bookFile
       ELSE /\ bookFile' = "written"
            /\ IF options.nlm_slides
               THEN gpc' = "slides" /\ UNCHANGED exitState
               ELSE gpc' = "exit" /\ exitState' = "ok"
    /\ UNCHANGED <<entryPoint, config, binding, options, started, completed,
                   knowledgeFound, adapted_content, structure,
                   chapters_data, book, genRet, slidesCalls, slidesRet,
                   slides_path>>
    /\ UNCHANGED client
    /\ UNCHANGED notGenVars

\* app.py:66-77 and 107-113: an exception of generate is caught by the outer
\* handler and the function returns (None, None, message); a book is
\* written to the Markdown file before the Slides block
AppAfterGenerate ==
    /\ entryPoint = "app"
    /\ gpc = "generated"
    /\ IF genRet.kind = "raise"
       THEN gpc' = "exit" /\ exitState' = "failed" /\ UNCHANGED bookFile
       ELSE /\ bookFile' = "written"
            /\ IF options.nlm_slides
               THEN gpc' = "slides" /\ UNCHANGED exitState
               ELSE gpc' = "exit" /\ exitState' = "ok"
    /\ UNCHANGED <<entryPoint, config, binding, options, started, completed,
                   knowledgeFound, adapted_content, structure,
                   chapters_data, book, genRet, slidesCalls, slidesRet,
                   slides_path>>
    /\ UNCHANGED client
    /\ UNCHANGED notGenVars

\* the same with a failed Slides call ending the run as a failed generation
\* does
CallSlides_ExitOnFailure ==
    /\ gpc = "slides"
    /\ slidesCalls' = slidesCalls + 1
    /\ \E outcome \in SlidesOutcomes :
          /\ slidesRet' = outcome
          /\ slides_path' = IF outcome.kind = "return" THEN outcome.value ELSE slides_path
          /\ exitState' = IF outcome.kind = "return" THEN "ok" ELSE "error"
    /\ gpc' = "exit"
    /\ UNCHANGED <<entryPoint, config, binding, options, started, completed,
                   knowledgeFound, adapted_content, structure,
                   chapters_data, book, genRet, bookFile>>
    /\ UNCHANGED client
    /\ UNCHANGED notGenVars

\* cli.py:176-204 and app.py:78-105: the call of upload_and_generate_slides
\* inside try; ImportError and every other Exception are reported and the
\* run goes on with slides_path / pdf_path as it was
CallSlides ==
    /\ gpc = "slides"
    /\ slidesCalls' = slidesCalls + 1
    /\ \E outcome \in SlidesOutcomes :
          /\ slidesRet' = outcome
          /\ slides_path' = IF outcome.kind = "return" THEN outcome.value ELSE slides_path
    /\ gpc' = "exit"
    /\ exitState' = "ok"
    /\ UNCHANGED <<entryPoint, config, binding, options, started, completed,
                   knowledgeFound, adapted_content, structure,
                   chapters_data, book, genRet, bookFile>>
    /\ UNCHANGED client
    /\ UNCHANGED notGenVars

GenNext ==
    \/ \E cfg \in RunConfigs, bind \in Bindings : CallGenerate(cfg, bind)
    \/ \E cfg \in RunConfigs, bind \in Bindings, opts \in CliOptions : RunCli(cfg, bind, opts)
    \/ \E cfg \in RunConfigs, bind \in Bindings, generate_slides \in BOOLEAN :
            RunApp(cfg, bind, generate_slides)
    \/ EnterServiceFails
    \/ BeginSearch
    \/ EndSearch
    \/ BeginAdapt
    \/ EndAdapt
    \/ BeginStructure
    \/ EndStructure
    \/ BeginChapters
    \/ EndChapters
    \/ CliAfterGenerate
    \/ AppAfterGenerate
    \/ CallSlides

SpecGenerate == Init /\ [][GenNext]_vars

(***************************************************************************)
(* The state machine of TelegramService: one call of send_book_slides, or  *)
(* of send_media_group on its own.                                         *)
(***************************************************************************)
\* send_book_slides(image_paths, book_title, ...) is awaited
CallSendBookSlides(paths, name, bad) ==
    /\ tpc = "idle"
    /\ tpc' = "images"
    /\ tgOp' = "send_book_slides"
    /\ image_paths' = paths
    /\ book_title' = name
    /\ unreadable' = bad
    /\ batchStart' = 0
    /\ UNCHANGED <<posted, openFiles, tgRet>>
    /\ UNCHANGED notTelegramVars

\* a send method has ended: its request is on the wire and the handles it
\* left open stay open
Account(sent) ==
    /\ posted' = IF sent.request = None THEN posted ELSE Append(posted, sent.request)
    /\ openFiles' = openFiles \cup (sent.opened \ sent.closed)

\* the loop goes on with the next batch although the send raised
SendBatch_GoOn(post) ==
    /\ tpc = "images"
    /\ batchStart < Len(image_paths)
    /\ LET batch == Batch(image_paths, batchStart)
           caption == IF batchStart = 0 THEN TitleCaption(book_title) ELSE <<>>
           sent == SendOneBatch(batch, caption, unreadable, post)
       IN  /\ Account(sent)
           /\ batchStart' = batchStart + BatchSize
           /\ UNCHANGED <<tpc, tgRet>>
    /\ UNCHANGED <<tgOp, image_paths, book_title, unreadable>>
    /\ UNCHANGED notTelegramVars

\* lines 119-135: one pass of the loop over the batches; an exception of
\* the send leaves send_book_slides
SendBatch(post) ==
    /\ tpc = "images"
    /\ batchStart < Len(image_paths)
    /\ LET batch == Batch(image_paths, batchStart)
           caption == IF batchStart = 0 THEN TitleCaption(book_title) ELSE <<>>
           sent == SendOneBatch(batch, caption, unreadable, post)
       IN  /\ Account(sent)
           /\ IF sent.ret.kind = "raise"
              THEN tgRet' = sent.ret /\ tpc' = "done" /\ UNCHANGED batchStart
              ELSE batchStart' = batchStart + BatchSize /\ UNCHANGED <<tpc, tgRet>>
    /\ UNCHANGED <<tgOp, image_paths, book_title, unreadable>>
    /\ UNCHANGED notTelegramVars

\* lines 137-140: the loop is over and the Chinese post is sent
SendZhPost(post) ==
    /\ tpc = "images"
    /\ batchStart >= Len(image_paths)
    /\ LET sent == SendMessage("zh_post", post)
       IN  /\ Account(sent)
           /\ IF sent.ret.kind = "raise"
              THEN tgRet' = sent.ret /\ tpc' = "done"
              ELSE tpc' = "en_post" /\ UNCHANGED tgRet
    /\ UNCHANGED <<tgOp, image_paths, book_title, unreadable, batchStart>>
    /\ UNCHANGED notTelegramVars

\* lines 142-144: the English post is sent and send_book_slides returns
SendEnPost(post) ==
    /\ tpc = "en_post"
    /\ LET sent == SendMessage("en_post", post)
       IN  /\ Account(sent)
           /\ tgRet' = sent.ret
    /\ tpc' = "done"
    /\ UNCHANGED <<tgOp, image_paths, book_title, unreadable, batchStart>>
    /\ UNCHANGED notTelegramVars

\* send_media_group(photo_paths, caption) is awaited on its own
CallSendMediaGroup(paths, name, bad) ==
    /\ tpc = "idle"
    /\ tpc' = "group"
    /\ tgOp' = "send_media_group"
    /\ image_paths' = paths
    /\ book_title' = name
    /\ unreadable' = bad
    /\ UNCHANGED <<batchStart, posted, openFiles, tgRet>>
    /\ UNCHANGED notTelegramVars

\* lines 57-92 for that call
ReturnSendMediaGroup(post) ==
    /\ tpc = "group"
    /\ LET sent == SendMediaGroup(image_paths, book_title, unreadable, post)
       IN  /\ Account(sent)
           /\ tgRet' = sent.ret
    /\ tpc' = "done"
    /\ UNCHANGED <<tgOp, image_paths, book_title, unreadable, batchStart>>
    /\ UNCHANGED notTelegramVars

TelegramNext ==
    \/ \E paths \in ImageLists, name \in BookTitles :
          \E bad \in BadFiles(paths) : CallSendBookSlides(paths, name, bad)
    \/ \E post \in PostOutcomes : SendBatch(post)
    \/ \E post \in PostOutcomes : SendZhPost(post)
    \/ \E post \in PostOutcomes : SendEnPost(post)
    \/ \E paths \in ImageLists, name \in BookTitles :
          \E bad \in BadFiles(paths) : CallSendMediaGroup(paths, name, bad)
    \/ \E post \in PostOutcomes : ReturnSendMediaGroup(post)

SpecTelegram == Init /\ [][TelegramNext]_vars

(***************************************************************************)
(* The state machine of NotebookLMService: one call of                     *)
(* _wait_with_progress, of generate_slides or of upload.                   *)
(***************************************************************************)
\* lines 77-78: the wait begins
BeginWait(interval, wait_limit) ==
    /\ check_interval' = interval
    /\ max_wait_time' = wait_limit
    /\ elapsed' = 0
    /\ slept' = 0
    /\ polls' = 0
    /\ lastStatus' = "none"

\* _wait_with_progress(client, notebook_id, task_id, ...) is awaited
CallWait(interval, wait_limit) ==
    /\ npc = "idle"
    /\ npc' = "wait"
    /\ nlmOp' = "_wait_with_progress"
    /\ BeginWait(interval, wait_limit)
    /\ UNCHANGED <<reportedWait, downloads, existing_names, source_title, nlmRet>>
    /\ UNCHANGED notNotebookVars

\* lines 80-117: one pass of the loop
Poll(polled) ==
    /\ npc = "wait"
    /\ elapsed < max_wait_time
    /\ polls' = polls + 1
    /\ lastStatus' = polled
    /\ IF polled \in Waiting
       THEN /\ slept' = slept + SleepOf(polled, check_interval)
            /\ elapsed' = elapsed + SleepOf(polled, check_interval)
            /\ UNCHANGED <<npc, nlmRet>>
       ELSE /\ npc' = AfterWait(nlmOp, PollEnds(polled))
            /\ nlmRet' = IF AfterWait(nlmOp, PollEnds(polled)) = "done"
                         THEN PollEnds(polled) ELSE nlmRet
            /\ UNCHANGED <<slept, elapsed>>
    /\ UNCHANGED <<nlmOp, check_interval, max_wait_time, reportedWait, downloads,
                   existing_names, source_title>>
    /\ UNCHANGED notNotebookVars

\* lines 80 and 119-123: the loop is left and TimeoutError names
\* max_wait_time as the seconds waited
Timeout ==
    /\ npc = "wait"
    /\ elapsed >= max_wait_time
    /\ reportedWait' = max_wait_time
    /\ npc' = AfterWait(nlmOp, Raise("TimeoutError"))
    /\ nlmRet' = IF AfterWait(nlmOp, Raise("TimeoutError")) = "done"
                 THEN Raise("TimeoutError") ELSE nlmRet
    /\ UNCHANGED <<nlmOp, check_interval, max_wait_time, elapsed, slept, polls,
                   lastStatus, downloads, existing_names, source_title>>
    /\ UNCHANGED notNotebookVars

\* lines 249-254: generate_slides is awaited; without the notebooklm
\* package _check_notebooklm raises ImportError
CallGenerateSlides(installed) ==
    /\ npc = "idle"
    /\ nlmOp' = "generate_slides"
    /\ IF installed
       THEN npc' = "create" /\ UNCHANGED nlmRet
       ELSE npc' = "done" /\ nlmRet' = Raise("ImportError")
    /\ UNCHANGED <<check_interval, max_wait_time, elapsed, slept, polls, lastStatus,
                   reportedWait, downloads, existing_names, source_title>>
    /\ UNCHANGED notNotebookVars

\* lines 254-277 and 287-289: the client is opened and the slide deck task
\* created, and the wait begins; an exception of either is re-raised
CreateTask(created) ==
    /\ npc = "create"
    /\ IF created
       THEN /\ npc' = "wait"
            /\ BeginWait(SlidesCheckInterval, SlidesMaxWaitTime)
            /\ UNCHANGED nlmRet
       ELSE /\ npc' = "done"
            /\ nlmRet' = Raise("Exception: generate_slide_deck")
            /\ UNCHANGED <<check_interval, max_wait_time, elapsed, slept, polls,
                           lastStatus>>
    /\ UNCHANGED <<nlmOp, reportedWait, downloads, existing_names, source_title>>
    /\ UNCHANGED notNotebookVars

\* lines 291-320: the download block
Download(downloaded) ==
    /\ npc = "download"
    /\ downloads' = downloads + 1
    /\ nlmRet' = IF downloaded THEN Return(PyStr(<<"slides.pdf">>))
                 ELSE Raise("Exception: download_slide_deck")
    /\ npc' = "done"
    /\ UNCHANGED <<nlmOp, check_interval, max_wait_time, elapsed, slept, polls,
                   lastStatus, reportedWait, existing_names, source_title>>
    /\ UNCHANGED notNotebookVars

\* lines 175-194: upload is awaited, the titles of the notebook's sources
\* are listed and the source title is chosen
CallUpload(name, existing, timestamp) ==
    /\ npc = "idle"
    /\ npc' = "add_file"
    /\ nlmOp' = "upload"
    /\ existing_names' = existing
    /\ source_title' = SourceTitle(name, existing, timestamp)
    /\ UNCHANGED <<check_interval, max_wait_time, elapsed, slept, polls, lastStatus,
                   reportedWait, downloads, nlmRet>>
    /\ UNCHANGED notNotebookVars

\* lines 196-229: the file is added and renamed to source_title, and the
\* title is returned; a timeout or another exception is raised
ReturnUpload(added) ==
    /\ npc = "add_file"
    /\ nlmRet' = CASE added = "ok" -> Return(PyStr(source_title))
                   [] added = "timeout" -> Raise("Exception: upload timed out")
                   [] OTHER -> Raise("Exception: add_file")
    /\ npc' = "done"
    /\ UNCHANGED <<nlmOp, check_interval, max_wait_time, elapsed, slept, polls,
                   lastStatus, reportedWait, downloads, existing_names, source_title>>
    /\ UNCHANGED notNotebookVars

NotebookNext ==
    \/ \E interval \in 1..MaxCheckInterval, wait_limit \in 0..MaxWaitTime :
          CallWait(interval, wait_limit)
    \/ \E polled \in PollOutcomes : Poll(polled)
    \/ Timeout
    \/ \E installed \in BOOLEAN : CallGenerateSlides(installed)
    \/ \E created \in BOOLEAN : CreateTask(created)
    \/ \E downloaded \in BOOLEAN : Download(downloaded)
    \/ \E name \in UploadTitles, existing \in SUBSET SourceTitles, timestamp \in Timestamps :
          CallUpload(name, existing, timestamp)
    \/ \E added \in {"ok", "timeout", "error"} : ReturnUpload(added)

SpecNotebook == Init /\ [][NotebookNext]_vars

\* the event loop goes on running the coroutine: a poll answers, a sleep
\* ends
SpecNotebookFair == SpecNotebook /\ WF_vars(NotebookNext)

(***************************************************************************)
(* The claims.  What the formulas read of a finished call:                 *)
(***************************************************************************)
Finished(name) == pc = "done" /\ op = name

\* json.loads of the brace-delimited part of the response, as the call saw it
Payload == ExtractJson(response)

\* the `chapters` value the call read from the payload
PayloadChapters == DictGet(Payload.v, Key("chapters"), PyList(<<>>))

Field(record, name) == DictGet(record, Key(name), Absent)

NonEmptyStr(v) == v.t = "str" /\ Len(v.s) > 0

\* C1: for every response text and every requested chapter_count N,
\* generate_book_structure returns a record whose chapters list has
\* exactly N entries.
C1_ChapterCountExact ==
    Finished("generate_book_structure") =>
        /\ ret.kind = "return"
        /\ Field(ret.value, "chapters").t = "list"
        /\ Len(Field(ret.value, "chapters").items) = args.chapter_count

\* C2: for every chapter_titles of length M and every response text,
\* generate_all_chapters returns a list of exactly M chapter records.
C2_ChapterRecordsExact ==
    Finished("generate_all_chapters") =>
        /\ ret.kind = "return"
        /\ ret.value.t = "list"
        /\ Len(ret.value.items) = Len(args.chapter_titles)

\* C3: for every response text, generate_social_captions returns a pair
\* whose zh and en fields are both non-empty strings.
C3_CaptionsNonEmpty ==
    Finished("generate_social_captions") =>
        /\ ret.kind = "return"
        /\ NonEmptyStr(Field(ret.value, "zh"))
        /\ NonEmptyStr(Field(ret.value, "en"))

\* C4: generate_book_structure never raises: whatever the response, also
\* when `chapters` is missing or is no sequence, the caller receives a
\* record with title, summary and chapters.
C4_StructureNeverRaises ==
    Finished("generate_book_structure") =>
        /\ ret.kind # "raise"
        /\ \A name \in {"title", "summary", "chapters"} : HasKey(ret.value, Key(name))

\* what index i of the chapter payload degrades to on its own: the parsed
\* content and knowledge points where the entry is a record that has them,
\* the defaults ("" and []) where it is not
DegradedContent(entry) ==
    IF entry.t = "dict" THEN DictGet(entry, Key("content"), PyStr(<<>>)) ELSE PyStr(<<>>)

DegradedPoints(entry) ==
    IF entry.t = "dict" THEN DictGet(entry, Key("knowledge_points"), PyList(<<>>))
    ELSE PyList(<<>>)

\* C5: in generate_all_chapters every index degrades on its own and without
\* an exception: a malformed entry at index i gives defaults at i, and every
\* other index keeps the content and knowledge points parsed for it.
C5_IndexesDegradeIndependently ==
    (Finished("generate_all_chapters") /\ Payload.ok /\ PayloadChapters.t = "list") =>
        /\ ret.kind = "return"
        /\ \A i \in 1..Len(args.chapter_titles) :
              i <= Len(PayloadChapters.items) =>
                /\ Field(ret.value.items[i], "content") = DegradedContent(PayloadChapters.items[i])
                /\ Field(ret.value.items[i], "knowledge_points")
                     = DegradedPoints(PayloadChapters.items[i])

\* the generic placeholder title numbered n
NumberedPlaceholder(n) == PyStr(<<"di">> \o IntToStr(n) \o <<"zhang">>)

\* C6: when the response parses to a record with k chapter titles and the
\* caller asked for N, the result holds the first min(k, N) parsed titles in
\* their order, followed (when k < N) by the placeholders numbered k+1..N:
\* the target is N, never k.
C6_PadOrTruncateToRequested ==
    (Finished("generate_book_structure") /\ Payload.ok /\ PayloadChapters.t = "list") =>
        /\ ret.kind = "return"
        /\ Field(ret.value, "chapters") =
             PyList([j \in 1..args.chapter_count |->
                        IF j <= Len(PayloadChapters.items) THEN PayloadChapters.items[j]
                        ELSE NumberedPlaceholder(j)])

\* a call that parsed one title and padded it to the two that were asked for
C6_Witness ==
    /\ Finished("generate_book_structure") /\ Payload.ok /\ ret.kind = "return"
    /\ PayloadChapters.t = "list"
    /\ Len(PayloadChapters.items) = 1
    /\ args.chapter_count = 2

\* C7 as stated: a parsed record that lacks title, or lacks summary, gets
\* the missing field from the topic-derived default of the full fallback,
\* and the supplied fields are kept.
C7_MissingFieldsTakeFallbackValues ==
    (Finished("generate_book_structure") /\ Payload.ok /\ ret.kind = "return") =>
        /\ Field(ret.value, "title") =
             DictGet(Payload.v, Key("title"), PyStr(TitleTemplate(args.topic)))
        /\ Field(ret.value, "summary") =
             DictGet(Payload.v, Key("summary"),
                     PyStr(SummaryTemplate(args.topic, args.age_range)))

\* C7 amended: a missing title takes the topic-derived default title of the
\* fallback, a missing summary becomes the empty string, and a supplied
\* title or summary is kept.
C7_MissingSummaryIsEmpty ==
    (Finished("generate_book_structure") /\ Payload.ok /\ ret.kind = "return") =>
        /\ Field(ret.value, "title") =
             (IF HasKey(Payload.v, Key("title")) THEN Field(Payload.v, "title")
              ELSE Field(FallbackStructure(args.topic, args.age_range, args.chapter_count),
                         "title"))
        /\ Field(ret.value, "summary") =
             (IF HasKey(Payload.v, Key("summary")) THEN Field(Payload.v, "summary")
              ELSE PyStr(<<>>))

\* a returned record built from a payload that has a title and no summary
C7_Witness ==
    /\ Finished("generate_book_structure") /\ Payload.ok /\ ret.kind = "return"
    /\ HasKey(Payload.v, Key("title"))
    /\ ~HasKey(Payload.v, Key("summary"))

\* C8: when the response has no opening or no closing brace, the fallback
\* title is built from the topic with the template of the requested
\* language.
C8_FallbackTitleInRequestedLanguage ==
    (Finished("generate_book_structure")
        /\ (Find(response, "{") = -1 \/ RFind(response, "}") = -1)) =>
        /\ ret.kind = "return"
        /\ Field(ret.value, "title") = PyStr(DefaultTitle(args.language, args.topic))

\* C9: with include_illustration false every returned chapter record has a
\* null illustration_prompt, whatever the response supplied.
C9_NoIllustrationWhenDisabled ==
    (Finished("generate_all_chapters") /\ ~args.include_illustration
        /\ ret.kind = "return") =>
        \A i \in 1..Len(ret.value.items) :
            Field(ret.value.items[i], "illustration_prompt") = None

\* a returned list for which the model did supply an illustration prompt
C9_Witness ==
    /\ Finished("generate_all_chapters") /\ ~args.include_illustration
    /\ ret.kind = "return" /\ Payload.ok
    /\ Len(ret.value.items) >= 1
    /\ PayloadChapters.t = "list" /\ Len(PayloadChapters.items) >= 1
    /\ Field(PayloadChapters.items[1], "illustration_prompt").t = "str"

\* the indexes (from 1) of a returned chapter list that had no parsed entry
Unparsed(i) ==
    /\ i \in 1..Len(args.chapter_titles)
    /\ Payload.ok => i > PyLen(PayloadChapters)

\* C10 as stated: every index without a parsed entry holds a body that names
\* the topic and the chapter number, no knowledge points and no
\* illustration prompt, and is the record a total parse failure gives.
C10_PlaceholderNamesTopicAndIndex ==
    (Finished("generate_all_chapters") /\ ret.kind = "return") =>
        \A i \in 1..Len(args.chapter_titles) : Unparsed(i) =>
            /\ Field(ret.value.items[i], "content").t = "str"
            /\ Contains(Field(ret.value.items[i], "content").s, args.topic)
            /\ Contains(Field(ret.value.items[i], "content").s, IntToStr(i))
            /\ Field(ret.value.items[i], "knowledge_points") = PyList(<<>>)
            /\ Field(ret.value.items[i], "illustration_prompt") = None
            /\ ret.value.items[i]
                 = FallbackChapters(args.topic, Len(args.chapter_titles)).items[i]

\* C10 amended: every index without a parsed entry holds a body that names
\* the topic, no knowledge points and no illustration prompt; after a total
\* parse failure the body also names the chapter number, while an index
\* beyond a parsed sequence holds one sentence that names no number and is
\* the same for every such index.
C10_PlaceholderNamesTopic ==
    (Finished("generate_all_chapters") /\ ret.kind = "return") =>
        \A i \in 1..Len(args.chapter_titles) : Unparsed(i) =>
            LET body == Field(ret.value.items[i], "content")
            IN  /\ body.t = "str"
                /\ Contains(body.s, args.topic)
                /\ Field(ret.value.items[i], "knowledge_points") = PyList(<<>>)
                /\ Field(ret.value.items[i], "illustration_prompt") = None
                /\ ~Payload.ok => Contains(body.s, IntToStr(i))
                /\ Payload.ok =>
                     /\ ~Contains(body.s, IntToStr(i))
                     /\ \A j \in 1..Len(args.chapter_titles) : Unparsed(j) =>
                            Field(ret.value.items[j], "content") = body

\* a returned list whose second index lies beyond a parsed one-entry list
C10_Witness ==
    /\ Finished("generate_all_chapters") /\ ret.kind = "return" /\ Payload.ok
    /\ PayloadChapters.t = "list" /\ Len(PayloadChapters.items) = 1
    /\ Len(args.chapter_titles) = 2

\* the value the payload supplies under a key, Absent when it has no such key
Supplied(name) ==
    IF \E i \in 1..Len(Payload.v.keys) : Payload.v.keys[i] = Key(name)
    THEN Payload.v.items[CHOOSE i \in 1..Len(Payload.v.keys) : Payload.v.keys[i] = Key(name)]
    ELSE Absent

\* C11: generate_social_captions returns a record of exactly `zh` and `en`.
\* When the response parses, each key holds exactly the value the payload
\* supplies under it (null and "" included) and an absent key holds the
\* caption template with the topic embedded, independently of the other
\* key; when the response does not parse, both keys hold the templates.
C11_CaptionsSuppliedOrTemplate ==
    Finished("generate_social_captions") =>
        /\ ret.kind = "return"
        /\ ret.value.t = "dict"
        /\ ret.value.keys = <<Key("zh"), Key("en")>>
        /\ \A name \in {"zh", "en"} :
              LET template == IF name = "zh" THEN ZhCaption(args.topic)
                                             ELSE EnCaption(args.topic)
              IN  /\ Contains(template, args.topic)
                  /\ Field(ret.value, name) =
                       IF Payload.ok /\ Supplied(name) # Absent
                       THEN Supplied(name) ELSE PyStr(template)

\* a parsed payload that supplies an empty `zh` and no `en`
C11_Witness ==
    /\ Finished("generate_social_captions") /\ Payload.ok
    /\ Supplied("zh") = PyStr(<<>>) /\ Supplied("en") = Absent
    /\ Field(ret.value, "zh") = PyStr(<<>>)
    /\ Field(ret.value, "en") = PyStr(EnCaption(args.topic))

\* the 1-based positions of the first opening and of the last closing brace
\* of the response, 0 when there is none
FirstOpen ==
    IF \E i \in 1..Len(response) : response[i] = Tok("{")
    THEN CHOOSE i \in 1..Len(response) :
            response[i] = Tok("{") /\ \A j \in 1..(i - 1) : response[j] # Tok("{")
    ELSE 0

LastClose ==
    IF \E i \in 1..Len(response) : response[i] = Tok("}")
    THEN CHOOSE i \in 1..Len(response) :
            response[i] = Tok("}") /\ \A j \in (i + 1)..Len(response) : response[j] # Tok("}")
    ELSE 0

\* the position at which the complete JSON object that starts at the first
\* opening brace ends, 0 when no complete object starts there
FirstObjectEnd ==
    LET r == IF FirstOpen # 0 THEN ParseValue(response, FirstOpen) ELSE ParseFail
    IN  IF r.ok THEN r.next - 1 ELSE 0

\* the first object of the response, read on its own
FirstObject == JsonLoads(SubSeq(response, FirstOpen, FirstObjectEnd)).v

\* a complete first object with a closing brace somewhere after it (a second
\* object, or commentary that holds a brace)
BraceAfterFirstObject == FirstObjectEnd # 0 /\ FirstObjectEnd < LastClose

\* the last closing brace stands before the first opening one
CloseBeforeOpen == FirstOpen # 0 /\ LastClose # 0 /\ LastClose < FirstOpen

\* what the finished operation returns when nothing was parsed
FullFallback ==
    CASE op = "generate_book_structure" ->
            FallbackStructure(args.topic, args.age_range, args.chapter_count)
      [] op = "generate_all_chapters" ->
            FallbackChapters(args.topic, Len(args.chapter_titles))
      [] op = "generate_social_captions" ->
            CaptionRecord(PyStr(ZhCaption(args.topic)), PyStr(EnCaption(args.topic)))
      [] OTHER -> None

ExtractionOps == {"generate_book_structure", "generate_all_chapters", "generate_social_captions"}

\* C12: in all three extractions the parser is handed the text from the first
\* opening brace to the last closing brace.  So a response whose complete
\* first object is followed by a later closing brace (two objects, or
\* commentary with a brace), or whose last closing brace stands before its
\* first opening one, makes the call return the full fallback, never the
\* data of the first object.
C12_FirstOpenToLastClose ==
    (pc = "done" /\ op \in ExtractionOps) =>
        /\ (FirstOpen # 0 /\ LastClose # 0) =>
              Payload = JsonLoads(SubSeq(response, FirstOpen, LastClose))
        /\ (BraceAfterFirstObject \/ CloseBeforeOpen) =>
              ret = Return(FullFallback)

\* two objects in one response, the first of them a structure with a title
\* of its own
C12_Witness ==
    /\ Finished("generate_book_structure")
    /\ BraceAfterFirstObject
    /\ FirstObjectEnd < Len(response) /\ response[FirstObjectEnd + 1] = Tok("{")
    /\ Field(FirstObject, "title") = PyStr(<<"T">>)
    /\ ret = Return(FullFallback)
    /\ Field(ret.value, "title") # PyStr(<<"T">>)

\* the returned value serialised as JSON and handed back as the response of
\* a second call with the same arguments
StructureAgain ==
    BookStructure(Dumps(ret.value), args.topic, args.age_range, args.chapter_count)

ChaptersAgain ==
    AllChapters(Dumps(PyDict(<<Key("chapters")>>, <<ret.value>>)), args.topic,
                args.chapter_titles, args.include_illustration)

\* C13: round-trip stability.  The record generate_book_structure returned
\* (the fallback record included), serialised as JSON and fed back as the
\* response with the same arguments, gives an equal record; the list
\* generate_all_chapters returned, wrapped as {"chapters": [...]} and fed
\* back, gives an equal list.
C13_RoundTripStable ==
    /\ (Finished("generate_book_structure") /\ ret.kind = "return") => StructureAgain = ret
    /\ (Finished("generate_all_chapters") /\ ret.kind = "return") => ChaptersAgain = ret

\* a returned structure that is not the payload itself: the parsed chapter
\* list was shorter than requested and was padded
C13_Witness ==
    /\ Finished("generate_book_structure") /\ ret.kind = "return" /\ Payload.ok
    /\ PayloadChapters.t = "list"
    /\ 0 < Len(PayloadChapters.items) /\ Len(PayloadChapters.items) < args.chapter_count
    /\ ret.value # Payload.v
    /\ StructureAgain = ret

\* C15: each of adapt, generate_book_structure, generate_all_chapters and
\* generate_social_captions sends exactly one request to the LLM per
\* invocation: one request is out once the call is under way, and the count
\* is still one when the call has ended, whether the response parsed or not.
C15_OneLlmCallPerInvocation ==
    /\ pc = "idle" => llmCalls = 0
    /\ pc \in {"llm", "done"} => llmCalls = 1

\* a caption call that ended on a response that did not parse
C15_Witness ==
    /\ Finished("generate_social_captions") /\ ~Payload.ok
    /\ ret = Return(FullFallback)
    /\ llmCalls = 1

\* the texts the knowledge record of the call holds, one after the other
\* with a blank line between them
JoinedContent == Join(<<"\n\n">>, DictGet(args.knowledge, Key("content"), PyList(<<>>)).items)

\* C18: adapt returns a record of summary, sources and original_content
\* whose summary is the LLM's text.  When the knowledge record has no
\* content (its joined content is empty) the sources are exactly
\* ["AI generated content"] and original_content is empty; when it has
\* content the sources are those of the knowledge record, unchanged, and
\* original_content is the joined content.
C18_AdaptRecord ==
    Finished("adapt") =>
        /\ ret.kind = "return"
        /\ ret.value.t = "dict"
        /\ ret.value.keys = <<Key("summary"), Key("sources"), Key("original_content")>>
        /\ Field(ret.value, "summary") = PyStr(TextOf(response))
        /\ IF JoinedContent = <<>>
           THEN /\ Field(ret.value, "sources") = PyList(<<PyStr(<<"AI generated content">>)>>)
                /\ Field(ret.value, "original_content") = PyStr(<<>>)
           ELSE /\ Field(ret.value, "sources")
                     = DictGet(args.knowledge, Key("sources"), PyList(<<>>))
                /\ Field(ret.value, "original_content") = PyStr(JoinedContent)

\* a knowledge record with sources of its own and an empty content list: the
\* sources are replaced
C18_Witness ==
    /\ Finished("adapt")
    /\ Field(args.knowledge, "content") = PyList(<<>>)
    /\ Field(args.knowledge, "sources") = PyList(<<PyStr(<<"https://example.com">>)>>)
    /\ response # <<>>
    /\ Field(ret.value, "sources") = PyList(<<PyStr(<<"AI generated content">>)>>)

(***************************************************************************)
(* The claims about KnowledgeSearchService.                                *)
(***************************************************************************)
Started(p) == branch[p].state # "not_started"

\* what a started provider contributed under a key of its result: the list
\* it returned, nothing when it raised or was not started
Contribution(p, name) ==
    IF branch[p].state = "returned" THEN Field(branch[p].result, name).items ELSE <<>>

ContributionsInOrder(name) ==
    Contribution("tavily", name) \o Contribution("serpapi", name)
        \o Contribution("wikipedia", name)

\* C14: search merges only after every branch it started has finished; a
\* branch that failed neither cancels nor blocks the others, which end with
\* outcomes of their own; search itself returns, and its result holds the
\* requested topic and the content and sources of exactly the branches that
\* returned.
C14_MergeAfterEveryBranch ==
    (spc = "done" /\ sop = "search") =>
        /\ \A p \in ProviderSet : Started(p) => IsFinished(branch[p])
        /\ \A p \in ProviderSet : Started(p) => \E i \in 1..Len(finished) : finished[i] = p
        /\ searchRet.kind = "return"
        /\ Field(searchRet.value, "topic") = PyStr(searchTopic)
        /\ Field(searchRet.value, "content") = PyList(ContributionsInOrder("content"))
        /\ Field(searchRet.value, "sources") = PyList(ContributionsInOrder("sources"))

\* Tavily failed first; SerpAPI and Wikipedia finished after it and their
\* findings are in the merged result
C14_Witness ==
    /\ spc = "done" /\ sop = "search"
    /\ finished[1] = "tavily" /\ branch["tavily"].state = "raised"
    /\ branch["serpapi"].result = FoundResult("serpapi")
    /\ branch["wikipedia"].result = FoundResult("wikipedia")
    /\ Len(Field(searchRet.value, "content").items) = 2
    /\ Len(Field(searchRet.value, "sources").items) = 2

\* C19: search starts the Tavily branch only with a non-empty
\* tavily_api_key, the SerpAPI branch only with a non-empty serp_api_key,
\* and the Wikipedia branch on every call; a provider method called with an
\* empty key returns {"content": [], "sources": []} and sends no HTTP
\* request.
C19_BranchesNeedTheirKey ==
    /\ (sop = "search" /\ spc # "idle") =>
          /\ Started("tavily") <=> settings.tavily_api_key # ""
          /\ Started("serpapi") <=> settings.serp_api_key # ""
          /\ Started("wikipedia")
    /\ \A p \in {"tavily", "serpapi"} :
          /\ ApiKey(settings, p) = "" => http[p] = 0
          /\ (spc = "done" /\ sop = p /\ ApiKey(settings, p) = "") =>
                searchRet = Return(EmptyResult)

\* _search_tavily awaited with an empty key has returned
C19_Witness ==
    /\ spc = "done" /\ sop = "tavily" /\ settings.tavily_api_key = ""
    /\ searchRet = Return(EmptyResult)
    /\ http["tavily"] = 0

\* the lists of the providers that returned, joined in the order Tavily,
\* SerpAPI, Wikipedia
InProviderOrder(name) ==
    LET part(i) == Contribution(Providers[i], name)
    IN  part(1) \o part(2) \o part(3)

\* C23: the content and the sources of the merged search result are in the
\* provider order Tavily, SerpAPI, Wikipedia, whatever order the concurrent
\* branches finished in: the result is a function of what each provider
\* answered, so two runs with the same answers and different completion
\* orders return the same lists.
C23_MergedInProviderOrder ==
    (spc = "done" /\ sop = "search") =>
        /\ searchRet.kind = "return"
        /\ Field(searchRet.value, "content").items = InProviderOrder("content")
        /\ Field(searchRet.value, "sources").items = InProviderOrder("sources")

\* the three branches finished in the reverse of the provider order, and
\* the merged lists begin with what Tavily found and end with Wikipedia's
C23_Witness ==
    /\ spc = "done" /\ sop = "search"
    /\ finished = <<"wikipedia", "serpapi", "tavily">>
    /\ \A p \in ProviderSet : branch[p].result = FoundResult(p)
    /\ Field(searchRet.value, "sources").items =
          <<PyStr(<<"https://tavily.example">>), PyStr(<<"https://serpapi.example">>),
            PyStr(<<"https://en.wikipedia.org/wiki/page">>)>>

Retried == {"tavily", "serpapi"}

\* what one step does to the requests of a retried provider
AttemptStep(p) ==
    /\ http'[p] \in {http[p], http[p] + 1}
    /\ http'[p] = http[p] + 1 => branch[p].state = "running"
    /\ IsFinished(branch[p]) => http'[p] = http[p] /\ branch'[p] = branch[p]
    /\ (branch[p].state = "running" /\ branch'[p].state = "raised") =>
          branch[p].attempts = 2

\* C27: a call of _search_tavily or _search_serpapi sends at most 3 HTTP
\* requests, one per attempt; an attempt that raised is followed by another
\* one until the third has raised, the call then raises and search returns
\* without that branch's findings; a call that has returned or raised sends
\* nothing more.
C27_AtMostThreeAttempts ==
    /\ [](\A p \in Retried :
            /\ http[p] <= 3
            /\ ApiKey(settings, p) # "" => http[p] = branch[p].attempts
            /\ branch[p].state = "running" => branch[p].attempts < 3
            /\ branch[p].state = "raised" => http[p] = 3
            /\ (spc = "done" /\ sop = "search" /\ branch[p].state = "raised") =>
                  /\ searchRet.kind = "return"
                  /\ Field(searchRet.value, "content").items =
                        InProviderOrder("content")
                  /\ Contribution(p, "content") = <<>>
            /\ (spc = "done" /\ sop = p /\ branch[p].state = "raised") =>
                  searchRet = Raise("RetryError"))
    /\ [][\A p \in Retried : AttemptStep(p)]_vars

\* Tavily failed three times, and search returned what Wikipedia found
C27_Witness ==
    /\ spc = "done" /\ sop = "search"
    /\ branch["tavily"].state = "raised" /\ http["tavily"] = 3
    /\ branch["wikipedia"].result = FoundResult("wikipedia")
    /\ Field(searchRet.value, "content").items =
          Field(FoundResult("wikipedia"), "content").items

(***************************************************************************)
(* The claims about PictureBookGenerator.generate and its front ends.      *)
(***************************************************************************)
Returned == gpc \notin {"idle", "at_search"} /\ genRet.kind = "return"

\* C16: generate runs search, adapt, structure and chapter fill as a
\* linear pipeline.  No step starts twice; a step starts only when the step
\* before it has completed; a run that returns has started and completed
\* each step exactly once; a run that raised did so out of one started step,
\* and no step after that one was started.
C16_LinearPipeline ==
    /\ \A i \in 1..Len(Steps) :
          /\ started[Steps[i]] <= 1
          /\ completed[Steps[i]] <= started[Steps[i]]
          /\ i > 1 => started[Steps[i]] <= completed[Steps[i - 1]]
    /\ genRet.kind = "return" =>
          \A i \in 1..Len(Steps) : started[Steps[i]] = 1 /\ completed[Steps[i]] = 1
    /\ genRet.kind = "raise" =>
          \E i \in 1..Len(Steps) :
              /\ started[Steps[i]] = 1 /\ completed[Steps[i]] = 0
              /\ \A j \in 1..Len(Steps) : j < i => completed[Steps[j]] = 1
              /\ \A j \in 1..Len(Steps) : j > i => started[Steps[j]] = 0

\* a run that the structure step aborted: search and adapt completed, the
\* chapter fill never started
C16_Witness ==
    /\ gpc = "generated" /\ genRet.kind = "raise"
    /\ completed["search"] = 1 /\ completed["adapt"] = 1
    /\ started["structure"] = 1 /\ completed["structure"] = 0
    /\ started["chapters"] = 0

\* the titles and the records the two adapter calls of the run returned
TitlesReturned == DictGet(structure, Key("chapters"), PyList(<<>>)).items

RecordsReturned == chapters_data.items

\* C17: the book generate returns has exactly config.chapter_count
\* chapters, numbered 1..chapter_count in order, however many titles the
\* structure step and however many records the chapter fill returned; a
\* chapter without a title of its own is titled "Chapter i", and a chapter
\* without a record keeps empty content and no knowledge points.
C17_ChapterCountOfTheBook ==
    (gpc = "generated" /\ genRet.kind = "return") =>
        /\ Len(book.chapters) = config.chapter_count
        /\ \A i \in 1..Len(book.chapters) :
              /\ book.chapters[i].number = i
              /\ book.chapters[i].title =
                    IF i <= Len(TitlesReturned) THEN TitlesReturned[i]
                    ELSE PyStr(<<"Chapter ">> \o IntToStr(i))
              /\ i > Len(RecordsReturned) =>
                    /\ book.chapters[i].content = PyStr(<<>>)
                    /\ book.chapters[i].knowledge_points = PyList(<<>>)

\* a returned book for which the structure step gave one title and the
\* chapter fill two records
C17_Witness ==
    /\ gpc = "generated" /\ genRet.kind = "return"
    /\ Len(TitlesReturned) = 1 /\ Len(RecordsReturned) = 2
    /\ Len(book.chapters) = config.chapter_count
    /\ book.chapters[2].title = PyStr(<<"Chapter ", "2">>)
    /\ book.chapters[2].content # PyStr(<<>>)
    /\ book.chapters[3].content = PyStr(<<>>)

BookFileInPlace == bookFile \in {"present", "written"}

\* C20: in the generate command and in the web app the book file is on disk
\* before upload_and_generate_slides is called; when that call fails, the
\* file stays, the run ends without an error exit, and no slides path is
\* set.
C20_SlidesFailureLeavesTheBook ==
    /\ slidesCalls > 0 => BookFileInPlace
    /\ gpc = "slides" => BookFileInPlace
    /\ (gpc = "exit" /\ slidesRet.kind = "raise") =>
          /\ entryPoint \in {"cli", "app"}
          /\ BookFileInPlace
          /\ exitState = "ok"
          /\ slides_path = None

\* the command wrote the book, then the Slides call failed
C20_Witness ==
    /\ entryPoint = "cli" /\ gpc = "exit"
    /\ genRet.kind = "return" /\ bookFile = "written"
    /\ slidesCalls = 1 /\ slidesRet.kind = "raise"
    /\ exitState = "ok" /\ slides_path = None

(***************************************************************************)
(* The claims about TelegramService.                                       *)
(***************************************************************************)
IsImageRequest(request) == request.method \in {"sendPhoto", "sendMediaGroup"}

\* the requests of the image batches, in the order they were posted
ImageRequests == SelectSeq(posted, IsImageRequest)

\* the place of a request in the order images, Chinese post, English post
Rank(request) ==
    IF IsImageRequest(request) THEN 1 ELSE IF request.text = "zh_post" THEN 2 ELSE 3

HasPosted(post_text) == \E i \in 1..Len(posted) : posted[i].text = post_text

\* ceil(len(image_paths) / 10)
BatchCount == (Len(image_paths) + BatchSize - 1) \div BatchSize

\* C21: send_book_slides posts in a fixed order, the image batches, then
\* the Chinese post, then the English post, each post once; a send that
\* raised is the last thing posted, so the Chinese post goes out only after
\* every batch was sent and the English post only after the Chinese one.
C21_ImagesThenZhThenEn ==
    tgOp = "send_book_slides" =>
        /\ \A i, j \in 1..Len(posted) :
              i < j => \/ Rank(posted[i]) < Rank(posted[j])
                       \/ Rank(posted[i]) = 1 /\ Rank(posted[j]) = 1
        /\ \A i \in 1..(Len(posted) - 1) : posted[i].ok
        /\ HasPosted("zh_post") => Len(ImageRequests) = BatchCount
        /\ HasPosted("en_post") => HasPosted("zh_post")
        /\ tgRet.kind = "raise" => tpc = "done"
        /\ tgRet.kind = "return" =>
              /\ Len(posted) = BatchCount + 2
              /\ \A i \in 1..Len(posted) : posted[i].ok

\* the second of three batches failed: one batch was delivered, and neither
\* the third batch nor a post followed the failure
C21_Witness ==
    /\ tgOp = "send_book_slides" /\ tpc = "done"
    /\ Len(image_paths) = 21
    /\ tgRet.kind = "raise"
    /\ Len(posted) = 2 /\ posted[1].ok /\ ~posted[2].ok

RECURSIVE PhotosOf(_)
PhotosOf(requests) ==
    IF requests = <<>> THEN <<>>
    ELSE Head(requests).photos \o PhotosOf(Tail(requests))

\* C22: the image requests of send_book_slides carry the images of the
\* list in their order, each once: batches of 1 to 10 consecutive images,
\* a batch of one through sendPhoto and a larger one through
\* sendMediaGroup, the first batch with the book-title caption and every
\* later one without a caption; when the posts are reached every image was
\* sent.
C22_EveryImageOnceInBatches ==
    tgOp = "send_book_slides" =>
        LET sentPhotos == PhotosOf(ImageRequests)
        IN  /\ Len(sentPhotos) <= Len(image_paths)
            /\ sentPhotos = SubSeq(image_paths, 1, Len(sentPhotos))
            /\ \A i \in 1..Len(ImageRequests) :
                  LET request == ImageRequests[i]
                  IN  /\ Len(request.photos) \in 1..10
                      /\ request.method = "sendPhoto" <=> Len(request.photos) = 1
                      /\ i < Len(ImageRequests) => Len(request.photos) = 10
                      /\ request.caption =
                            IF i = 1 THEN TitleCaption(book_title) ELSE <<>>
            /\ (HasPosted("zh_post") \/ tgRet.kind = "return") => sentPhotos = image_paths

\* 21 images went out as two media groups and one photo, the first with
\* the caption
C22_Witness ==
    /\ tgOp = "send_book_slides" /\ tgRet.kind = "return"
    /\ Len(image_paths) = 21 /\ Len(ImageRequests) = 3
    /\ ImageRequests[1].method = "sendMediaGroup"
    /\ ImageRequests[1].caption = TitleCaption(book_title)
    /\ ImageRequests[2].method = "sendMediaGroup" /\ ImageRequests[2].caption = <<>>
    /\ ImageRequests[3].method = "sendPhoto" /\ ImageRequests[3].photos = <<21>>

\* C29: no file handle send_media_group opened is open once the method has
\* returned or raised, whether the post succeeded or raised or a later
\* image file could not be opened.
C29_EveryHandleClosed == openFiles = {}

(***************************************************************************)
(* The claims about NotebookLMService.                                     *)
(***************************************************************************)
InWait == nlmOp \in {"_wait_with_progress", "generate_slides"}

WaitOver == nlmOp = "_wait_with_progress" /\ npc = "done"

\* ceil(a / b)
CeilDiv(a, b) == (a + b - 1) \div b

\* what holds of a wait whatever the number of polls: a poll that reported
\* completion or failure was the first such poll and ended the wait with
\* that status or with an exception, and TimeoutError is raised only out of
\* a loop whose every poll was followed by a sleep
WaitEndsAtFirstDecision ==
    /\ npc = "wait" => lastStatus \in Waiting \cup {"none"}
    /\ WaitOver =>
          /\ lastStatus = "complete" <=> nlmRet = Return(PyStr(<<"complete">>))
          /\ lastStatus \in {"failed", "failed_not_found"} =>
                nlmRet.kind = "raise" /\ nlmRet.exc # "TimeoutError"
          /\ nlmRet.exc = "TimeoutError" <=>
                lastStatus \in Waiting \cup {"none"} /\ elapsed >= max_wait_time
    /\ elapsed >= check_interval * (IF lastStatus \in Waiting THEN polls ELSE polls - 1)
          \/ polls = 0

\* C24 as stated: for check_interval > 0 the wait ends at the first poll
\* that is complete (returning the status) or failed (raising), and
\* otherwise raises TimeoutError after at most max_wait_time /
\* check_interval polls.
C24_AtMostWaitOverIntervalPolls ==
    InWait =>
        /\ WaitEndsAtFirstDecision
        /\ polls * check_interval <= max_wait_time

\* C24, the number of polls amended: for check_interval > 0 the wait ends,
\* at the first poll that is complete (returning the status) or failed
\* (raising), and otherwise with TimeoutError after at most
\* ceil(max_wait_time / check_interval) polls, every other status adding
\* at least check_interval to the elapsed counter.
C24_AtMostCeilPolls ==
    /\ [](InWait =>
            /\ WaitEndsAtFirstDecision
            /\ polls <= CeilDiv(max_wait_time, check_interval))
    /\ (npc = "wait") ~> (npc # "wait")

\* max_wait_time is no multiple of check_interval, and the wait timed out
\* after one poll more than their quotient
C24_Witness ==
    /\ WaitOver /\ nlmRet.exc = "TimeoutError"
    /\ check_interval = 2 /\ max_wait_time = 5 /\ polls = 3

\* C25: the seconds slept in a wait never exceed max_wait_time, rate-limited
\* polls included, and when TimeoutError is raised the elapsed counter
\* equals the max_wait_time its message reports.
C25_NeverWaitsBeyondMax ==
    InWait =>
        /\ slept <= max_wait_time
        /\ nlmRet.exc = "TimeoutError" => elapsed = max_wait_time /\ reportedWait = elapsed

\* C26: generate_slides attempts the download only after a poll of the task
\* reported completion, and once; when the task failed, was not found or
\* the wait timed out, no download is attempted and the exception of the
\* wait reaches the caller.
C26_DownloadOnlyAfterCompletion ==
    nlmOp = "generate_slides" =>
        /\ downloads <= 1
        /\ (npc = "download" \/ downloads > 0) => lastStatus = "complete"
        /\ (npc = "done" /\ lastStatus # "complete") =>
              /\ downloads = 0
              /\ nlmRet.kind = "raise"
        /\ (npc = "done" /\ lastStatus \in Statuses \ (Waiting \cup {"complete"})) =>
              nlmRet = PollEnds(lastStatus)
        /\ (npc = "done" /\ lastStatus = "not_found_error") =>
              nlmRet = Raise("Exception: not found or expired")
        /\ (npc = "done" /\ lastStatus \in Waiting) => nlmRet = Raise("TimeoutError")

\* the wait of generate_slides timed out and nothing was downloaded
C26_Witness ==
    /\ nlmOp = "generate_slides" /\ npc = "done"
    /\ nlmRet = Raise("TimeoutError")
    /\ elapsed >= SlidesMaxWaitTime
    /\ downloads = 0

\* C28: the source_title upload returns is the title of no source that was
\* in the notebook when the upload started, for every set of such titles.
C28_SourceTitleIsNew ==
    (nlmOp = "upload" /\ npc = "done" /\ nlmRet.kind = "return") =>
        source_title \notin existing_names

\* C30: on every run of generate the HTTP client the KnowledgeSearchService
\* created is closed once the search step has ended, whether the step
\* returned or raised, and before content adaptation starts; no run leaves
\* the client open.
C30_ClientClosedAfterSearch ==
    /\ gpc \notin {"idle", "at_search", "in_search"} => client # "open"
    /\ started["adapt"] > 0 => client # "open"

====
